---------------------------- MODULE Spec2Model ----------------------------
(***************************************************************************)
(* folder-tail: a model of the tail engine of internal/tailer/tailer.go.   *)
(*                                                                         *)
(* Bytes are tokens ("a", "b", LF, CR); a file's content, a held partial   *)
(* and a line text are sequences of tokens.  The truncation marker         *)
(* " [truncated]" is the single token TruncMark at the end of a text.      *)
(* Paths are sequences of one-character strings with "/" the separator.    *)
(*                                                                         *)
(* Specifications:                                                         *)
(*   Spec        the incremental reader on one tracked file against a      *)
(*               writer that appends to and truncates it                   *)
(*   SpecTail    tailLastLines and registration with a tail of N lines     *)
(*   SpecFilter  shouldInclude over include and exclude patterns           *)
(*   SpecScan    reconciliation over a small directory tree                *)
(***************************************************************************)
EXTENDS Integers, Sequences, FiniteSets, TLC

VARIABLES
    cfg,        \* Config: FromStart, N, Recursive, includes, excludes
    fs,         \* the file system: path -> [kind, data]
    states,     \* Tailer.states: tracked path -> fileState
    watchedDir, \* Tailer.watchedDir: the set of subscribed directories
    call,       \* history: the engine call just made, its pre-state and the lines it sent
    reg,        \* history: per tracked path, what was delivered since registration
    args,       \* the inputs of a pure-function call (SpecTail, SpecFilter)
    ret,        \* its result; in SpecRender the renderer's Model
    linesCh,    \* Tailer.lines: the buffer of the line queue
    errsCh,     \* Tailer.errs: the buffer of the error queue
    loop        \* the control loop: its position, the signals, what it closed

vars == <<cfg, fs, states, watchedDir, call, reg, args, ret, linesCh, errsCh, loop>>

-----------------------------------------------------------------------------
(* Bounds of the model *)

MaxFileLen == 5
\* the longest content a file is given
MaxRegrowLen == 3
\* the longest content a tracked file is given after it was truncated
ReadChunkSize == 2
\* stands for readChunkSize: the bytes one file.Read or ReadAt returns
MaxLineBytes == 3
\* cfg.MaxLineBytes, the byte ceiling of a line
MaxN == 2
\* the largest cfg.N
MaxTailLen == 7
\* the longest content of a file in SpecTail
MaxScanLen == 1
\* the longest content of a file in SpecScan
MaxPatterns == 2
\* the longest include or exclude list in SpecFilter
LinesCap == 2
\* the capacity of the line queue (4096 in New)
ErrsCap == 1
\* the capacity of the error queue (64 in New)
MaxSends == 6
\* the number of lines the producer sends in SpecQueue
MaxLateReads == 2
\* the incremental reads counted after the cancellation in SpecLoop

-----------------------------------------------------------------------------
(* Bytes, texts and small helpers *)

LF == "LF"
CR == "CR"
TruncMark == "[truncated]"
Byte == {"a", "b", LF, CR}

\* what a writer may put at offset i (0-based): a terminator, a carriage return,
\* or the ordinary byte of that place ("a" at even offsets, "b" at odd ones, so
\* that an ordinary byte tells where in the file it was written)
WriteByte(i) == {LF, CR, IF i % 2 = 0 THEN "a" ELSE "b"}

Min(x, y) == IF x < y THEN x ELSE y

Tail2(s, k) == SubSeq(s, k + 1, Len(s))
\* s[k:] of the Go source: s without its first k elements

HasByte(data, b) == \E i \in 1..Len(data) : data[i] = b

\* bytes.IndexByte, 1-based; 0 when b does not occur (the source's -1)
IndexByte(data, b) ==
    IF HasByte(data, b)
    THEN CHOOSE i \in 1..Len(data) :
            data[i] = b /\ \A j \in 1..(i - 1) : data[j] # b
    ELSE 0

\* bytes.Count of a one-byte separator
CountByte(data, b) == Cardinality({i \in 1..Len(data) : data[i] = b})

Line(path, text, partial, update) ==
    [path |-> path, text |-> text, partial |-> partial, update |-> update]

NoState == [offset |-> 0, partial |-> <<>>, partialDisplayed |-> FALSE]
\* &fileState{}


-----------------------------------------------------------------------------
(* The incremental reader: readFromOffset and its helpers *)

\* trimTrailingCR: one trailing carriage return is dropped
trimTrailingCR(data) ==
    IF Len(data) = 0 THEN data
    ELSE IF data[Len(data)] = CR THEN SubSeq(data, 1, Len(data) - 1)
    ELSE data

\* truncateLineBytes: the text and whether it was cut at max bytes
truncateLineBytes(data, max) ==
    IF max > 0 /\ Len(data) > max
    THEN [text |-> SubSeq(data, 1, max) \o <<TruncMark>>, truncated |-> TRUE]
    ELSE [text |-> data, truncated |-> FALSE]

\* a seeded fault: every event of a call that had a partial is flagged an update
EmitLineAllUpdates(acc, path, text, partial, hadPartial) ==
    [acc EXCEPT !.events = Append(@, Line(path, text, partial, hadPartial)),
                !.updatedPartial = @ \/ hadPartial]

\* one sendLine of readFromOffset's loop: the event is appended to the call's
\* events, and the first one of a call that had a displayed partial is the update
EmitLine(acc, path, text, partial, hadPartial) ==
    LET update == hadPartial /\ ~acc.updatedPartial
    IN  [acc EXCEPT !.events = Append(@, Line(path, text, partial, update)),
                    !.updatedPartial = @ \/ update]

\* a seeded fault: the bytes carried over from the chunks before are dropped
appendCarryDropped(carry, data) == data

\* carry = append(carry, data...): a chunk without a terminator joins the carry
appendCarry(carry, data) == carry \o data

\* the body of "for len(data) > 0" over one chunk returned by file.Read
RECURSIVE scanChunk(_, _, _, _, _)
scanChunk(data, acc, path, hadPartial, maxBytes) ==
    IF Len(data) = 0 THEN acc
    ELSE LET idx == IndexByte(data, LF)
         IN  IF idx = 0
             THEN LET carry == appendCarry(acc.carry, data)
                      tr == truncateLineBytes(carry, maxBytes)
                  IN  IF maxBytes > 0 /\ Len(carry) > maxBytes /\ tr.truncated
                      THEN [EmitLine(acc, path, tr.text, FALSE, hadPartial)
                               EXCEPT !.carry = <<>>]
                      ELSE [acc EXCEPT !.carry = carry]
             ELSE LET lineBytes == trimTrailingCR(acc.carry \o SubSeq(data, 1, idx - 1))
                      tr == truncateLineBytes(lineBytes, maxBytes)
                  IN  scanChunk(Tail2(data, idx),
                                [EmitLine(acc, path, tr.text, FALSE, hadPartial)
                                    EXCEPT !.carry = <<>>],
                                path, hadPartial, maxBytes)

\* the read loop: file.Read fills buf (readChunkSize bytes) until io.EOF
RECURSIVE readChunks(_, _, _, _, _)
readChunks(rest, acc, path, hadPartial, maxBytes) ==
    IF Len(rest) = 0 THEN acc
    ELSE LET n == Min(ReadChunkSize, Len(rest))
             acc2 == scanChunk(SubSeq(rest, 1, n), acc, path, hadPartial, maxBytes)
         IN  readChunks(Tail2(rest, n),
                        [acc2 EXCEPT !.totalRead = @ + n],
                        path, hadPartial, maxBytes)

\* a seeded fault: the held partial is not carried into the read
startCarryEmpty(state, includeExistingPartial) == <<>>

\* the carry readFromOffset starts with: the held partial when it is included
startCarry(state, includeExistingPartial) ==
    IF includeExistingPartial /\ Len(state.partial) > 0 THEN state.partial ELSE <<>>

\* readFromOffset on a file whose bytes are data: the lines sent, in order,
\* and the state it leaves.  A seek past the end reads nothing.
readFromOffset(path, data, state, offset, includeExistingPartial) ==
    LET hadPartial == state.partialDisplayed /\ includeExistingPartial
                      /\ Len(state.partial) > 0
        carry0 == startCarry(state, includeExistingPartial)
        rest == IF offset >= Len(data) THEN <<>> ELSE Tail2(data, offset)
        acc == readChunks(rest,
                          [carry |-> carry0, events |-> <<>>,
                           updatedPartial |-> FALSE, totalRead |-> 0],
                          path, hadPartial, MaxLineBytes)
    IN  IF Len(acc.carry) > 0
        THEN LET partial == trimTrailingCR(acc.carry)
                 tr == truncateLineBytes(partial, MaxLineBytes)
                 fin == EmitLine(acc, path, tr.text, ~tr.truncated, hadPartial)
             IN  [err |-> "nil", events |-> fin.events,
                  state |-> [offset |-> offset + acc.totalRead,
                             partial |-> IF tr.truncated THEN <<>> ELSE partial,
                             partialDisplayed |-> ~tr.truncated]]
        ELSE [err |-> "nil", events |-> acc.events,
              state |-> [offset |-> offset + acc.totalRead,
                         partial |-> <<>>, partialDisplayed |-> FALSE]]

\* readFromOffset when file.Read returns an error other than io.EOF after
\* okChunks full chunks: the lines of those chunks have been sent, the error is
\* returned before the state is touched
readFromOffsetFailing(path, data, state, offset, includeExistingPartial, okChunks) ==
    LET hadPartial == state.partialDisplayed /\ includeExistingPartial
                      /\ Len(state.partial) > 0
        rest == IF offset >= Len(data) THEN <<>> ELSE Tail2(data, offset)
    IN  \* the chunks read before the error
        [err |-> "EIO",
         events |-> readChunks(SubSeq(rest, 1, Min(Len(rest), okChunks * ReadChunkSize)),
                               [carry |-> startCarry(state, includeExistingPartial),
                                events |-> <<>>, updatedPartial |-> FALSE, totalRead |-> 0],
                               path, hadPartial, MaxLineBytes).events,
         state |-> state]

-----------------------------------------------------------------------------
(* splitLines and tailLastLines *)

\* splitLines' loop "for i, b := range data": acc is [lines, start], start 0-based
RECURSIVE splitScan(_, _, _)
splitScan(data, i, acc) ==
    IF i > Len(data) THEN acc
    ELSE IF data[i] = LF
         THEN splitScan(data, i + 1,
                        [lines |-> Append(acc.lines,
                                          trimTrailingCR(SubSeq(data, acc.start + 1, i - 1))),
                         start |-> i])
         ELSE splitScan(data, i + 1, acc)

\* splitLines: the complete lines and the trailing partial (empty for nil)
splitLines(data) ==
    IF Len(data) = 0 THEN [lines |-> <<>>, partial |-> <<>>]
    ELSE LET acc == splitScan(data, 1, [lines |-> <<>>, start |-> 0])
         IN  IF acc.start < Len(data)
             THEN [lines |-> acc.lines,
                   partial |-> trimTrailingCR(Tail2(data, acc.start))]
             ELSE [lines |-> acc.lines, partial |-> <<>>]

\* a seeded fault: the backward read stops as soon as n terminators were seen
tailMoreStopsEarly(remaining, lineCount, n) == remaining > 0 /\ lineCount < n

\* the guard of tailLastLines' backward loop
tailMore(remaining, lineCount, n) == remaining > 0 /\ lineCount <= n

\* tailLastLines' backward loop: chunks of readChunkSize bytes are read from the
\* end while tailMore; the result is the chunks joined in file order
RECURSIVE tailChunks(_, _, _, _, _)
tailChunks(data, remaining, lineCount, n, joined) ==
    IF tailMore(remaining, lineCount, n)
    THEN LET readSize == Min(ReadChunkSize, remaining)
             rem2 == remaining - readSize
             buf == SubSeq(data, rem2 + 1, rem2 + readSize)
         IN  tailChunks(data, rem2, lineCount + CountByte(buf, LF), n, buf \o joined)
    ELSE joined

\* lines[len(lines)-k:] when len(lines) > k
LastK(lines, k) == IF Len(lines) > k THEN Tail2(lines, Len(lines) - k) ELSE lines

\* a seeded fault: n complete lines are kept beside a partial
tailSelectN(split, n) ==
    [lines |-> LastK(split.lines, n), partial |-> split.partial]

\* the selection at the end of tailLastLines: n-1 lines beside a partial, else n
tailSelect(split, n) ==
    IF Len(split.partial) > 0
    THEN [lines |-> LastK(split.lines, n - 1), partial |-> split.partial]
    ELSE [lines |-> LastK(split.lines, n), partial |-> <<>>]

\* tailLastLines on a file whose bytes are data
tailLastLines(data, n) ==
    IF n <= 0 THEN [lines |-> <<>>, partial |-> <<>>]
    ELSE IF Len(data) = 0 THEN [lines |-> <<>>, partial |-> <<>>]
    ELSE tailSelect(splitLines(tailChunks(data, Len(data), 0, n, <<>>)), n)

-----------------------------------------------------------------------------
(* Paths and the file system *)

Sep == "/"
Root == <<"r">>
Join(dir, name) == dir \o <<Sep>> \o name

PathA == Join(Root, <<"a">>)
PathD == Join(Root, <<"d">>)
PathDA == Join(PathD, <<"a">>)
\* a file beside the directory d whose name starts with the name of d
PathDSib == Join(Root, <<"d", "a">>)
\* a directory inside the directory d
PathDE == Join(PathD, <<"e">>)
Paths == {Root, PathA, PathD, PathDA, PathDE, PathDSib}

\* strings.HasPrefix
HasPrefix(s, prefix) ==
    Len(prefix) <= Len(s) /\ SubSeq(s, 1, Len(prefix)) = prefix

\* filepath.Base of a path of the tree: what follows the last separator
Base(path) ==
    LET seps == {i \in 1..Len(path) : path[i] = Sep}
    IN  IF seps = {} THEN path
        ELSE Tail2(path, CHOOSE i \in seps : \A j \in seps : j <= i)

\* filepath.Rel(root, path) for a path under the root; the path itself on error
Rel(root, path) ==
    IF path = root THEN <<".">>
    ELSE IF HasPrefix(path, root \o <<Sep>>) THEN Tail2(path, Len(root) + 1)
    ELSE path

Parent(path) ==
    LET seps == {i \in 1..Len(path) : path[i] = Sep}
    IN  SubSeq(path, 1, (CHOOSE i \in seps : \A j \in seps : j <= i) - 1)

NoFile == [kind |-> "none", data |-> <<>>]
Dir == [kind |-> "dir", data |-> <<>>]
RegularFile(data) == [kind |-> "file", data |-> data]
\* a regular file that os.Open refuses (permission denied)
Unreadable(data) == [kind |-> "noperm", data |-> data]
\* a regular file on which file.Read fails after okChunks chunks (an I/O error)
Faulty(data, okChunks) == [kind |-> "faulty", data |-> data, okChunks |-> okChunks]

\* os.Stat follows symbolic links: err, or what the path resolves to
Stat(p) ==
    CASE fs[p].kind = "none" -> [err |-> "ENOENT", regular |-> FALSE, dir |-> FALSE, size |-> 0]
      [] fs[p].kind \in {"file", "symfile", "noperm", "faulty"} ->
            [err |-> "nil", regular |-> TRUE, dir |-> FALSE, size |-> Len(fs[p].data)]
      [] OTHER -> [err |-> "nil", regular |-> FALSE, dir |-> TRUE, size |-> 0]

-----------------------------------------------------------------------------
(* The text classifier *)

DefaultSampleSize == 512
NUL == "NUL"

\* isTextData on the tokens of the model: a NUL byte makes the sample binary;
\* letters, CR and LF sniff as text/plain
isTextData(sample) == Len(sample) = 0 \/ ~HasByte(sample, NUL)

\* isTextFile: [err, isText]; opening a missing path or reading a directory fails
isTextFile(p) ==
    IF fs[p].kind = "noperm" THEN [err |-> "EACCES", isText |-> FALSE]
    ELSE IF ~Stat(p).regular THEN [err |-> "EIO", isText |-> FALSE]
    ELSE [err |-> "nil",
          isText |-> isTextData(SubSeq(fs[p].data, 1, Min(DefaultSampleSize, Len(fs[p].data))))]

-----------------------------------------------------------------------------
(* The pattern matcher *)

RegexMark == "re:"

\* path.Match / filepath.Match for patterns of literals, "?" and "*": neither
\* wildcard matches the separator
RECURSIVE GlobMatch(_, _)
GlobMatch(pat, s) ==
    IF Len(pat) = 0 THEN Len(s) = 0
    ELSE IF pat[1] = "*"
         THEN GlobMatch(Tail(pat), s)
              \/ (Len(s) > 0 /\ s[1] # Sep /\ GlobMatch(pat, Tail(s)))
    ELSE IF pat[1] = "?"
         THEN Len(s) > 0 /\ s[1] # Sep /\ GlobMatch(Tail(pat), Tail(s))
    ELSE Len(s) > 0 /\ s[1] = pat[1] /\ GlobMatch(Tail(pat), Tail(s))

\* regexp.MatchString for a regular expression that is a literal: an unanchored search
RegexMatch(re, s) ==
    \E i \in 0..(Len(s) - Len(re)) : SubSeq(s, i + 1, i + Len(re)) = re

\* usesPathPattern: the glob names a separator
usesPathPattern(glob) == HasByte(glob, Sep) \/ HasByte(glob, "\\")

\* normalizeGlobPattern: a leading "./" is dropped
normalizeGlobPattern(raw) ==
    IF Len(raw) >= 2 /\ raw[1] = "." /\ raw[2] \in {Sep, "\\"} THEN Tail2(raw, 2) ELSE raw

\* compilePatterns for one non-empty value (patternKindFor included)
compilePattern(value, forceRegex) ==
    IF Len(value) > 0 /\ value[1] = RegexMark
    THEN [kind |-> "regex", glob |-> <<>>, re |-> Tail(value), pathPattern |-> FALSE]
    ELSE IF forceRegex
         THEN [kind |-> "regex", glob |-> <<>>, re |-> value, pathPattern |-> FALSE]
    ELSE LET glob == normalizeGlobPattern(value)
         IN  [kind |-> "glob", glob |-> glob, re |-> <<>>,
              pathPattern |-> usesPathPattern(glob)]

\* compilePatterns over a list of values
compilePatterns(values, forceRegex) ==
    [i \in 1..Len(values) |-> compilePattern(values[i], forceRegex)]

\* a seeded fault: every glob is matched against the relative path
matchCompiledPatternRelOnly(pattern, name, rel) ==
    IF pattern.kind = "regex" THEN RegexMatch(pattern.re, rel)
    ELSE GlobMatch(pattern.glob, rel)

\* matchCompiledPattern: a regex and a path glob see the relative path, a plain
\* glob the base name
matchCompiledPattern(pattern, name, rel) ==
    IF pattern.kind = "regex" THEN RegexMatch(pattern.re, rel)
    ELSE IF pattern.pathPattern THEN GlobMatch(pattern.glob, rel)
    ELSE GlobMatch(pattern.glob, name)

\* the loop over the include patterns: matched at the first one that matches
RECURSIVE anyMatch(_, _, _, _)
anyMatch(patterns, i, name, rel) ==
    IF i > Len(patterns) THEN FALSE
    ELSE IF matchCompiledPattern(patterns[i], name, rel) THEN TRUE
    ELSE anyMatch(patterns, i + 1, name, rel)

\* shouldInclude with the compiled include and exclude lists of the Tailer
shouldIncludeWith(includes, excludes, root, path) ==
    IF Len(includes) = 0 /\ Len(excludes) = 0 THEN TRUE
    ELSE LET name == Base(path)
             rel == Rel(root, path)
         IN  IF Len(includes) > 0 /\ ~anyMatch(includes, 1, name, rel) THEN FALSE
             ELSE IF Len(excludes) > 0 /\ anyMatch(excludes, 1, name, rel) THEN FALSE
             ELSE TRUE

shouldInclude(path) == shouldIncludeWith(cfg.includes, cfg.excludes, Root, path)

-----------------------------------------------------------------------------
(* readNew, registration and the notification handlers *)

Tracked == DOMAIN states

\* getState: the entry, or nil
HasState(p) == p \in Tracked

\* a seeded fault: the read starts at 0 whatever the stored offset
readNewNoSeek(path, state) ==
    LET info == Stat(path)
    IN  IF info.err # "nil" THEN [err |-> info.err, events |-> <<>>, state |-> state]
        ELSE IF ~info.regular \/ info.size = state.offset
             THEN [err |-> "nil", events |-> <<>>, state |-> state]
        ELSE readFromOffset(path, fs[path].data, state, 0, TRUE)

\* a seeded fault: a truncation resets the offset and keeps the held partial
readNewKeepPartial(path, state) ==
    LET info == Stat(path)
        reset == IF info.size < state.offset THEN [state EXCEPT !.offset = 0] ELSE state
    IN  IF info.err # "nil" THEN [err |-> info.err, events |-> <<>>, state |-> state]
        ELSE IF ~info.regular \/ info.size = state.offset
             THEN [err |-> "nil", events |-> <<>>, state |-> state]
        ELSE readFromOffset(path, fs[path].data, reset, reset.offset, TRUE)

\* a seeded fault: a size below the stored offset is not corrected
readNewNoReset(path, state) ==
    LET info == Stat(path)
    IN  IF info.err # "nil" THEN [err |-> info.err, events |-> <<>>, state |-> state]
        ELSE IF ~info.regular \/ info.size = state.offset
             THEN [err |-> "nil", events |-> <<>>, state |-> state]
        ELSE readFromOffset(path, fs[path].data, state, state.offset, TRUE)

\* readNew: stat, the truncation reset, then an incremental read that includes
\* the held partial; os.Open in readFromOffset fails on an unreadable file
readNew(path, state) ==
    LET info == Stat(path)
        reset == IF info.size < state.offset THEN NoState ELSE state
    IN  IF info.err # "nil" THEN [err |-> info.err, events |-> <<>>, state |-> state]
        ELSE IF ~info.regular THEN [err |-> "nil", events |-> <<>>, state |-> state]
        ELSE IF info.size = state.offset
             THEN [err |-> "nil", events |-> <<>>, state |-> state]
        ELSE IF fs[path].kind = "noperm"
             THEN [err |-> "EACCES", events |-> <<>>, state |-> reset]
        ELSE IF fs[path].kind = "faulty"
             THEN readFromOffsetFailing(path, fs[path].data, reset, reset.offset, TRUE,
                                        fs[path].okChunks)
        ELSE readFromOffset(path, fs[path].data, reset, reset.offset, TRUE)

\* the lines initFile sends for the tail: the complete lines, then the partial
RECURSIVE tailEvents(_, _, _)
tailEvents(path, lines, partial) ==
    IF Len(lines) > 0
    THEN <<Line(path, Head(lines), FALSE, FALSE)>> \o tailEvents(path, Tail(lines), partial)
    ELSE IF Len(partial) > 0 THEN <<Line(path, partial, TRUE, FALSE)>>
    ELSE <<>>

\* initFile on a fresh state.  data is the content when the file is opened for
\* the tail or the read from the start; size is what the closing os.Stat
\* reports, which a writer may have raised in between.  A file that is gone
\* fails the open or the stat, an unreadable one the open of the read from the
\* start and of the tail: the error is returned with the state as it was.
initFile(path, state, data, size) ==
    IF fs[path].kind = "none" THEN [err |-> "ENOENT", events |-> <<>>, state |-> state]
    ELSE IF fs[path].kind = "noperm" /\ (cfg.FromStart \/ cfg.N > 0)
         THEN [err |-> "EACCES", events |-> <<>>, state |-> state]
    ELSE IF fs[path].kind = "faulty" /\ cfg.FromStart
         THEN readFromOffsetFailing(path, data, state, 0, FALSE, fs[path].okChunks)
    ELSE IF fs[path].kind = "faulty" /\ cfg.N > 0
         THEN [err |-> "EIO", events |-> <<>>, state |-> state]
    ELSE IF cfg.FromStart THEN readFromOffset(path, data, state, 0, FALSE)
    ELSE LET t == tailLastLines(data, cfg.N)
         IN  [err |-> "nil",
              events |-> IF cfg.N > 0 THEN tailEvents(path, t.lines, t.partial) ELSE <<>>,
              state |-> [offset |-> size,
                         partial |-> IF cfg.N > 0 THEN t.partial ELSE <<>>,
                         partialDisplayed |-> cfg.N > 0 /\ Len(t.partial) > 0]]

\* what a handler leaves: the store, the watch set, the lines and errors it
\* sent and the calls of watcher.Add it made; failing is the set of directories
\* on which watcher.Add fails while the handler runs (none unless set)
Outcome(st, wd, events, errs) ==
    [states |-> st, watchedDir |-> wd, events |-> events, errs |-> errs,
     failing |-> {}, adds |-> <<>>]

\* the end of ensureFile: the entry put in the store is as initFile leaves it,
\* the lines of initFile are sent and its error is sent
stored(o, path, r) ==
    [o EXCEPT !.states = [q \in DOMAIN o.states \cup {path} |->
                             IF q = path THEN r.state ELSE o.states[q]],
              !.events = @ \o r.events,
              !.errs = IF r.err # "nil" THEN Append(@, r.err) ELSE @]

\* a seeded fault: ensureFile without the guard against a second registration
ensureFileUnguarded(o, path, data, size) ==
    IF ~shouldInclude(path) THEN o
    ELSE IF isTextFile(path).err # "nil" \/ ~isTextFile(path).isText THEN o
    ELSE CHOOSE v \in {stored(o, path, r) : r \in {initFile(path, NoState, data, size)}} : TRUE

\* a seeded fault: ensureFile without the filter
ensureFileUnfiltered(o, path, data, size) ==
    IF isTextFile(path).err # "nil" \/ ~isTextFile(path).isText THEN o
    ELSE IF path \in DOMAIN o.states THEN o
    ELSE CHOOSE v \in {stored(o, path, r) : r \in {initFile(path, NoState, data, size)}} : TRUE

\* ensureFile: filter, classify, guard against a second registration, initFile
ensureFile(o, path, data, size) ==
    IF ~shouldInclude(path) THEN o
    ELSE IF isTextFile(path).err # "nil" \/ ~isTextFile(path).isText THEN o
    ELSE IF path \in DOMAIN o.states THEN o
    ELSE CHOOSE v \in {stored(o, path, r) : r \in {initFile(path, NoState, data, size)}} : TRUE

\* a seeded fault: the prefix of removePath lacks the separator
removePathNoSep(o, path) ==
    IF path \in o.watchedDir
    THEN [o EXCEPT !.watchedDir = @ \ {path},
                   !.states = [q \in {x \in DOMAIN o.states : ~HasPrefix(x, path)}
                                  |-> o.states[q]]]
    ELSE [o EXCEPT !.states = [q \in DOMAIN o.states \ {path} |-> o.states[q]]]

\* removePath: a watched directory goes with every tracked file beneath it,
\* any other path goes alone
removePath(o, path) ==
    IF path \in o.watchedDir
    THEN [o EXCEPT !.watchedDir = @ \ {path},
                   !.states = [q \in {x \in DOMAIN o.states :
                                         ~HasPrefix(x, path \o <<Sep>>)} |-> o.states[q]]]
    ELSE [o EXCEPT !.states = [q \in DOMAIN o.states \ {path} |-> o.states[q]]]

\* the incremental read of a tracked file inside a handler: state and lines
\* are taken over, the error is handed back
readInto(o, path) ==
    CHOOSE v \in {[o |-> [o EXCEPT !.states[path] = r.state, !.events = @ \o r.events],
                   err |-> r.err] : r \in {readNew(path, o.states[path])}} : TRUE

\* handleWrite: a tracked path is read, an unknown regular file is registered
handleWrite(o, path, data, size) ==
    IF path \notin DOMAIN o.states
    THEN IF Stat(path).err = "nil" /\ Stat(path).regular
         THEN ensureFile(o, path, data, size) ELSE o
    ELSE CHOOSE v \in {IF r.err = "nil" THEN r.o
                        ELSE IF r.err = "ENOENT" THEN removePath(r.o, path)
                        ELSE [r.o EXCEPT !.errs = Append(@, r.err)] :
                            r \in {readInto(o, path)}} : TRUE

-----------------------------------------------------------------------------
(* Reconciliation: scanAndRegister and scanRoot *)

\* filepath.WalkDir reaches a path when it exists and every directory above it,
\* up to the root, is a real directory (a link to a directory is not entered)
Reached(p) ==
    \A k \in 1..Len(p) :
        (k = Len(p) \/ p[k + 1] = Sep) =>
            LET q == SubSeq(p, 1, k)
            IN  q = Root \/ (fs[q].kind # "none" /\ (q = p \/ fs[q].kind = "dir"))

\* the paths of the sequence that satisfy Reached, in their order
RECURSIVE Visited(_)
Visited(list) ==
    IF Len(list) = 0 THEN <<>>
    ELSE (IF Reached(Head(list)) THEN <<Head(list)>> ELSE <<>>) \o Visited(Tail(list))

\* the paths filepath.WalkDir visits from the root, in lexical order
WalkOrder == Visited(<<Root, PathA, PathD, PathDA, PathDE, PathDSib>>)

\* the entries os.ReadDir lists in the root, in lexical order
RootEntries == Visited(<<PathA, PathD, PathDSib>>)

\* a seeded fault: a tracked file is marked seen and not read
caughtUpSkipped(w, r, path) == [w EXCEPT !.seenFiles = @ \cup {path}]

\* readNew in a pass: state and lines are taken over, an error is sent
caughtUp(w, r, path) ==
    [w EXCEPT !.o = IF r.err = "nil" THEN r.o ELSE [r.o EXCEPT !.errs = Append(@, r.err)],
              !.seenFiles = @ \cup {path}]

\* the pass over one regular file that is not a link: filter, then readNew for
\* a tracked file, classification and ensureFile for an unknown one
visitFile(w, path) ==
    IF ~shouldInclude(path) THEN w
    ELSE IF path \in DOMAIN w.o.states
         THEN CHOOSE v \in {caughtUp(w, r, path) : r \in {readInto(w.o, path)}} : TRUE
    ELSE IF isTextFile(path).err # "nil"
         THEN [w EXCEPT !.o.errs = Append(@, isTextFile(path).err)]
    ELSE IF isTextFile(path).isText
         THEN [w EXCEPT !.o = ensureFile(w.o, path, fs[path].data, Len(fs[path].data)),
                        !.seenFiles = @ \cup {path}]
    ELSE w

\* a seeded fault: addWatch subscribes again a directory that is watched
addWatchAgain(o, path) ==
    IF path \in o.failing
    THEN [o EXCEPT !.adds = Append(@, path), !.errs = Append(@, "ENOSPC")]
    ELSE [o EXCEPT !.adds = Append(@, path), !.watchedDir = @ \cup {path}]

\* addWatch with the sendErr its callers make: nothing for a watched directory;
\* else watcher.Add is called, and the directory enters the watch set unless
\* the call fails
addWatch(o, path) ==
    IF path \in o.watchedDir THEN o
    ELSE IF path \in o.failing
         THEN [o EXCEPT !.adds = Append(@, path), !.errs = Append(@, "ENOSPC")]
    ELSE [o EXCEPT !.adds = Append(@, path), !.watchedDir = @ \cup {path}]

\* a seeded fault: the walk notes a directory and does not watch it
walkVisitUnwatched(w, path) ==
    IF fs[path].kind \in {"symfile", "symdir"} THEN w
    ELSE IF fs[path].kind = "dir" THEN [w EXCEPT !.seenDirs = @ \cup {path}]
    ELSE visitFile(w, path)

\* the callback of the walk in scanAndRegister: links are skipped, a directory
\* is noted and watched, a regular file is visited
walkVisit(w, path) ==
    IF fs[path].kind \in {"symfile", "symdir"} THEN w
    ELSE IF fs[path].kind = "dir"
         THEN [w EXCEPT !.seenDirs = @ \cup {path}, !.o = addWatch(@, path)]
    ELSE visitFile(w, path)

\* the body of the loop in scanRoot: links and directories are skipped
rootVisit(w, path) ==
    IF fs[path].kind \in {"symfile", "symdir", "dir"} THEN w
    ELSE visitFile(w, path)

RECURSIVE walk(_, _, _)
walk(w, list, recursive) ==
    IF Len(list) = 0 THEN w
    ELSE CHOOSE r \in {walk(v, Tail(list), recursive) :
                          v \in {IF recursive THEN walkVisit(w, Head(list))
                                               ELSE rootVisit(w, Head(list))}} : TRUE

\* a seeded fault: every tracked file the pass did not see is dropped
pruneStatesUnseen(st, seenFiles) ==
    [q \in {x \in DOMAIN st : x \in seenFiles} |-> st[q]]

\* the prune of the store: an unseen entry stays if it stats as a regular file
pruneStates(st, seenFiles) ==
    [q \in {x \in DOMAIN st : x \in seenFiles \/ (Stat(x).err = "nil" /\ Stat(x).regular)}
        |-> st[q]]

\* a seeded fault: the watch set is left as the walk made it
pruneDirsNever(wd, seenDirs) == wd

\* the prune of the watch set: an unseen entry stays if it stats as a directory
pruneDirs(wd, seenDirs) ==
    {d \in wd : d \in seenDirs \/ (Stat(d).err = "nil" /\ Stat(d).dir)}

\* the prune that follows the loop of scanRoot
pruneAfterRoot(w) ==
    [o |-> [w.o EXCEPT !.states = pruneStates(@, w.seenFiles)], seenFiles |-> w.seenFiles]

\* scanRoot: the entries of the root, then the prune of the store
scanRoot(o) ==
    CHOOSE r \in {pruneAfterRoot(w) :
                    w \in {walk([o |-> o, seenFiles |-> {}, seenDirs |-> {}],
                                entries, FALSE) : entries \in {RootEntries}}} : TRUE

\* the two prunes that follow the walk of scanAndRegister
pruneAfterWalk(w) ==
    [o |-> [w.o EXCEPT !.states = pruneStates(@, w.seenFiles),
                       !.watchedDir = pruneDirs(@, w.seenDirs)],
     seenFiles |-> w.seenFiles]

\* scanAndRegister: scanRoot when not recursive, else the walk and both prunes
scanAndRegister(o) ==
    IF ~cfg.Recursive THEN scanRoot(o)
    ELSE CHOOSE r \in {pruneAfterWalk(w) :
                         w \in {walk([o |-> o, seenFiles |-> {}, seenDirs |-> {}],
                                     order, TRUE) : order \in {WalkOrder}}} : TRUE

\* the part of the sequence that is path or lies beneath it
RECURSIVE From(_, _)
From(list, path) ==
    IF Len(list) = 0 THEN <<>>
    ELSE (IF Head(list) = path \/ HasPrefix(Head(list), path \o <<Sep>>)
          THEN <<Head(list)>> ELSE <<>>) \o From(Tail(list), path)

\* the result of scanDir: what the walk left of the handler's outcome
walked(w) == w.o

\* scanDir: the walk of scanAndRegister from the directory, without a prune
scanDir(o, path) ==
    CHOOSE r \in {walked(walk([o |-> o, seenFiles |-> {}, seenDirs |-> {}], order, TRUE)) :
                      order \in {From(WalkOrder, path)}} : TRUE

\* a seeded fault: a created directory is watched and scanned in either mode
handleCreateAnyMode(o, path) ==
    IF Stat(path).err # "nil" THEN o
    ELSE IF Stat(path).dir THEN scanDir(addWatch(o, path), path)
    ELSE IF Stat(path).regular
         THEN ensureFile(o, path, fs[path].data, Len(fs[path].data))
    ELSE o

\* a seeded fault: a created directory is watched and not scanned
handleCreateNoScan(o, path) ==
    IF Stat(path).err # "nil" THEN o
    ELSE IF Stat(path).dir
         THEN IF ~cfg.Recursive THEN o
              ELSE addWatch(o, path)
    ELSE IF Stat(path).regular
         THEN ensureFile(o, path, fs[path].data, Len(fs[path].data))
    ELSE o

\* handleCreate: os.Stat follows a link; a directory is watched and scanned
\* when recursive, a regular file is registered
handleCreate(o, path) ==
    IF Stat(path).err # "nil" THEN o
    ELSE IF Stat(path).dir
         THEN IF ~cfg.Recursive THEN o
              ELSE scanDir(addWatch(o, path), path)
    ELSE IF Stat(path).regular
         THEN ensureFile(o, path, fs[path].data, Len(fs[path].data))
    ELSE o

\* a seeded fault: after the prune of a removal or a rename the other kinds of
\* the notification are handled as well
handleEventNoReturn(o, op, path) ==
    CHOOSE v \in {IF "write" \in op
                   THEN handleWrite(c, path, fs[path].data, Len(fs[path].data))
                   ELSE c :
                       c \in {IF "create" \in op THEN handleCreate(removePath(o, path), path)
                              ELSE removePath(o, path)}} : TRUE

\* handleEvent: op is the set of kinds the notification carries.  A removal
\* or a rename prunes the path and returns; else a creation is handled, and
\* then a write
handleEvent(o, op, path) ==
    IF op \cap {"remove", "rename"} # {} THEN removePath(o, path)
    ELSE CHOOSE v \in {IF "write" \in op
                        THEN handleWrite(c, path, fs[path].data, Len(fs[path].data))
                        ELSE c :
                            c \in {IF "create" \in op THEN handleCreate(o, path) ELSE o}} : TRUE

\* FileCount: the size of the store
FileCount == Cardinality(DOMAIN states)

-----------------------------------------------------------------------------
(* History of a call and of a registration *)

NoCall == [op |-> "none", path |-> <<>>, pre |-> <<>>, events |-> <<>>, errs |-> <<>>]

EmptyStore == [q \in {} |-> NoState]

\* no pure-function call was made
NoArgs == [op |-> "none"]

\* the control loop before Start: nothing cancelled, nothing closed, and the
\* sendLine in progress (none)
IdleLoop ==
    [pc |-> "idle", cancelled |-> FALSE, eventsOpen |-> TRUE,
     closed |-> <<>>, lateReads |-> 0, send |-> [pc |-> "none"]]

\* the queues New makes are empty and the loop is not started
LoopNotStarted == linesCh = <<>> /\ errsCh = <<>> /\ loop = IdleLoop

\* the events of a sequence that carry the given path
RECURSIVE EventsOf(_, _)
EventsOf(events, path) ==
    IF Len(events) = 0 THEN <<>>
    ELSE (IF Head(events).path = path THEN <<Head(events)>> ELSE <<>>)
         \o EventsOf(Tail(events), path)

\* the complete lines of a sequence of events, each followed by a terminator
RECURSIVE Flatten(_)
Flatten(events) ==
    IF Len(events) = 0 THEN <<>>
    ELSE (IF Head(events).partial THEN <<>> ELSE Head(events).text \o <<LF>>)
         \o Flatten(Tail(events))

\* reg after a handler: a new entry records where its delivered window starts,
\* an old one appends what the handler delivered for it.  raced: a writer
\* appended between the tail read and the stat of the registration.
RegAfter(pre, o, data, raced) ==
    [q \in DOMAIN o.states |->
        LET evs == EventsOf(o.events, q)
        IN  IF q \notin DOMAIN pre
            THEN [clean |-> ~raced, cut |-> FALSE,
                  start |-> IF cfg.FromStart THEN 0
                            ELSE IF cfg.N = 0 THEN o.states[q].offset
                            ELSE Len(data) - Len(Flatten(evs)) - Len(o.states[q].partial),
                  delivered |-> Flatten(evs)]
            ELSE IF reg[q].clean
                 THEN [reg[q] EXCEPT !.delivered = @ \o Flatten(evs)]
            ELSE reg[q]]

\* reg after the file at path was cut, removed or replaced
RegSpoiled(path) ==
    [q \in DOMAIN reg |->
        IF q = path
        THEN [clean |-> FALSE, cut |-> TRUE, start |-> 0, delivered |-> <<>>]
        ELSE reg[q]]

-----------------------------------------------------------------------------
(* Spec: the reader on one file against a writer *)

\* N is not read when FromStart is set
Configs ==
    {c \in [FromStart : BOOLEAN, N : 0..MaxN, Recursive : {TRUE},
            includes : {<<>>}, excludes : {<<>>}] : c.FromStart => c.N = 0}

Init ==
    /\ cfg \in Configs
    /\ fs = [p \in Paths |-> IF p = Root THEN Dir
                             ELSE IF p = PathA THEN RegularFile(<<>>) ELSE NoFile]
    /\ states = EmptyStore
    /\ watchedDir = {Root}
    /\ call = NoCall
    /\ reg = EmptyStore
    /\ args = NoArgs
    /\ ret = NoArgs
    /\ LoopNotStarted

\* the writer appends one byte
WriterAppend(p, b) ==
    /\ fs[p].kind = "file"
    /\ Len(fs[p].data) < MaxFileLen
    /\ (p \in DOMAIN reg /\ reg[p].cut) => Len(fs[p].data) < MaxRegrowLen
    /\ b \in WriteByte(Len(fs[p].data))
    /\ fs' = [fs EXCEPT ![p].data = Append(@, b)]
    /\ call' = NoCall
    /\ UNCHANGED <<cfg, states, watchedDir, reg, args, ret, linesCh, errsCh, loop>>

\* the writer cuts the file to its first k bytes (before the file is tracked
\* this only gives a content that appends alone give)
WriterTruncate(p, k) ==
    /\ fs[p].kind = "file"
    /\ p \in Tracked
    /\ k < Len(fs[p].data)
    /\ fs' = [fs EXCEPT ![p].data = SubSeq(@, 1, k)]
    /\ call' = NoCall
    /\ reg' = RegSpoiled(p)
    /\ UNCHANGED <<cfg, states, watchedDir, args, ret, linesCh, errsCh, loop>>

\* the bytes a writer may append while a registration is between its tail read
\* and its stat
Gaps == {<<>>} \cup {<<b>> : b \in Byte}

\* a write notification for p is handled
HandleWrite(p, gap) ==
    /\ fs[p].kind = "file"
    /\ gap # <<>> =>
          /\ p \notin Tracked /\ ~cfg.FromStart /\ cfg.N > 0
          /\ Len(fs[p].data) + Len(gap) <= MaxFileLen
          /\ gap[1] \in WriteByte(Len(fs[p].data))
    /\ \E o \in {handleWrite(Outcome(states, watchedDir, <<>>, <<>>), p,
                              fs[p].data, Len(fs[p].data) + Len(gap))} :
           /\ states' = o.states
           /\ watchedDir' = o.watchedDir
           /\ call' = [op |-> "handleWrite", path |-> p, pre |-> states,
                       events |-> o.events, errs |-> o.errs]
           /\ reg' = RegAfter(states, o, fs[p].data, gap # <<>>)
           /\ fs' = [fs EXCEPT ![p].data = @ \o gap]
    /\ UNCHANGED <<cfg, args, ret, linesCh, errsCh, loop>>

Next ==
    \/ \E b \in Byte : WriterAppend(PathA, b)
    \/ \E k \in 0..MaxFileLen : WriterTruncate(PathA, k)
    \/ \E gap \in Gaps : HandleWrite(PathA, gap)

Spec == Init /\ [][Next]_vars

-----------------------------------------------------------------------------
(* Claims about the incremental reader, checked under Spec *)

\* every window of MaxLineBytes + 1 bytes holds a terminator: no line, and no
\* unterminated end, is longer than the ceiling
NoLongLine(data) ==
    \A i \in 1..(Len(data) - MaxLineBytes) : \E j \in i..(i + MaxLineBytes) : data[j] = LF

PlainContent(data) == ~HasByte(data, CR) /\ NoLongLine(data)

\* the handler just run made readNew call readFromOffset on the tracked file p
ReadCall(p) ==
    /\ call.op = "handleWrite" /\ call.path = p
    /\ p \in DOMAIN call.pre /\ p \in Tracked
    /\ fs[p].kind = "file" /\ Len(fs[p].data) # call.pre[p].offset

\* the handler just run registered p
RegisterCall(p) ==
    call.op = "handleWrite" /\ call.path = p /\ p \notin DOMAIN call.pre /\ p \in Tracked

\* that read saw a size below the stored offset
SawTruncation(p) == ReadCall(p) /\ Len(fs[p].data) < call.pre[p].offset

\* C1: for a file only appended to since a registration no writer raced, with
\* no carriage return and no line over the ceiling, the complete lines delivered
\* since registration, each with its terminator, followed by the held partial,
\* are exactly the bytes from the registration offset to the stored offset
C1_DeliveredExactlyOnce ==
    \A p \in Tracked :
        (reg[p].clean /\ PlainContent(fs[p].data)) =>
            /\ reg[p].start <= states[p].offset
            /\ states[p].offset <= Len(fs[p].data)
            /\ reg[p].delivered \o states[p].partial
                 = SubSeq(fs[p].data, reg[p].start + 1, states[p].offset)

\* C1's case: an incremental read that completed a held partial and left a new one
C1_Witness ==
    \E p \in Tracked :
        /\ ReadCall(p) /\ reg[p].clean /\ PlainContent(fs[p].data)
        /\ Len(call.pre[p].partial) > 0
        /\ Len(call.events) >= 2
        /\ Len(states[p].partial) > 0
        /\ reg[p].start > 0

\* C2: a read that sees the size below the stored offset starts again at 0
\* without the old partial: no event is an update, the stored offset is the
\* size read, the events are those of a first read of the content, and for
\* plain content they spell it exactly
C2_TruncationRestart ==
    \A p \in Tracked :
        SawTruncation(p) =>
            /\ \A i \in 1..Len(call.events) : ~call.events[i].update
            /\ states[p].offset = Len(fs[p].data)
            /\ call.events = readFromOffset(p, fs[p].data, NoState, 0, FALSE).events
            /\ PlainContent(fs[p].data) =>
                  Flatten(call.events) \o states[p].partial = fs[p].data

\* C2's case: the stored offset and a displayed partial are stale, the file is
\* shorter and not empty
C2_Witness ==
    \E p \in Tracked :
        /\ SawTruncation(p)
        /\ Len(call.pre[p].partial) > 0 /\ call.pre[p].partialDisplayed
        /\ Len(fs[p].data) >= 2
        /\ Len(call.events) >= 2

\* C3: in one incremental read, when a displayed non-empty partial was held and
\* is included, the first event and only the first is an update; otherwise no
\* event is
C3_UpdateFlag ==
    \A p \in Tracked :
        ReadCall(p) =>
            LET pre == call.pre[p]
                included == pre.partialDisplayed /\ Len(pre.partial) > 0
                            /\ ~SawTruncation(p)
                E == call.events
            IN  IF included
                THEN /\ Len(E) >= 1
                     /\ E[1].update
                     /\ \A i \in 2..Len(E) : ~E[i].update
                ELSE \A i \in 1..Len(E) : ~E[i].update

\* a registration (the read from the start does not include a partial) sends no update
C3_Witness ==
    \E p \in Tracked :
        /\ ReadCall(p) /\ ~SawTruncation(p)
        /\ call.pre[p].partialDisplayed /\ Len(call.pre[p].partial) > 0
        /\ Len(call.events) >= 3

\* one trailing carriage return less, written apart from the model's trimTrailingCR
WithoutLastCR(x) ==
    IF Len(x) > 0 /\ x[Len(x)] = CR THEN SubSeq(x, 1, Len(x) - 1) ELSE x

\* the partial an incremental read started with, and the new bytes it read
HeldBefore(p) == call.pre[p].partial
NewBytes(p) == Tail2(fs[p].data, call.pre[p].offset)

\* an incremental read that started with a held partial and met no truncation
CarryCall(p) == ReadCall(p) /\ ~SawTruncation(p) /\ Len(HeldBefore(p)) > 0

\* C4 as claimed: the first complete line is P and the new bytes up to the first
\* terminator; with no terminator the new partial, sent as a partial event, is P
\* and all new bytes; a read ending on a terminator leaves no partial
C4_Claimed ==
    \A p \in Tracked :
        CarryCall(p) =>
            LET P == HeldBefore(p)
                D == NewBytes(p)
                idx == IndexByte(D, LF)
                E == call.events
            IN  /\ idx > 0 => E[1].text = P \o SubSeq(D, 1, idx - 1) /\ ~E[1].partial
                /\ idx = 0 => /\ states[p].partial = P \o D
                              /\ E[Len(E)].partial /\ E[Len(E)].text = P \o D
                /\ D[Len(D)] = LF => states[p].partial = <<>>

\* C4 (amended): as claimed, less one trailing carriage return, while P and the
\* new bytes (up to the first terminator, or all of them) stay within the ceiling
C4_CarryForward ==
    \A p \in Tracked :
        CarryCall(p) =>
            LET P == HeldBefore(p)
                D == NewBytes(p)
                idx == IndexByte(D, LF)
                E == call.events
                first == P \o SubSeq(D, 1, idx - 1)
            IN  /\ (idx > 0 /\ Len(first) <= MaxLineBytes) =>
                      E[1].text = WithoutLastCR(first) /\ ~E[1].partial
                /\ (idx = 0 /\ Len(P \o D) <= MaxLineBytes) =>
                      /\ states[p].partial = WithoutLastCR(P \o D)
                      /\ E = <<Line(p, WithoutLastCR(P \o D), TRUE,
                                    call.pre[p].partialDisplayed)>>
                /\ D[Len(D)] = LF => states[p].partial = <<>>

\* C4's case: a held partial is completed by new bytes that end in CR LF, and
\* the read goes on to leave a new partial
C4_Witness ==
    \E p \in Tracked :
        /\ CarryCall(p)
        /\ IndexByte(NewBytes(p), LF) > 2
        /\ NewBytes(p)[IndexByte(NewBytes(p), LF) - 1] = CR
        /\ Len(HeldBefore(p)) + IndexByte(NewBytes(p), LF) - 1 <= MaxLineBytes
        /\ Len(states[p].partial) > 0

\* C5: a read whose stream (held partial, then new bytes) is one terminated line
\* longer than the ceiling, free of carriage returns, sends exactly one event:
\* not partial, the first MaxLineBytes bytes and the truncation marker
C5_OneEventPerLongLine ==
    \A p \in Tracked :
        (ReadCall(p) /\ ~SawTruncation(p)) =>
            LET S == HeldBefore(p) \o NewBytes(p)
            IN  (/\ S[Len(S)] = LF /\ CountByte(S, LF) = 1 /\ ~HasByte(S, CR)
                 /\ Len(S) - 1 > MaxLineBytes) =>
                    /\ Len(call.events) = 1
                    /\ ~call.events[1].partial
                    /\ call.events[1].text = SubSeq(S, 1, MaxLineBytes) \o <<TruncMark>>

\* the bytes with every carriage return dropped that stands directly before a
\* terminator or at the end
RECURSIVE DropLineCR(_, _)
DropLineCR(data, i) ==
    IF i > Len(data) THEN <<>>
    ELSE (IF data[i] = CR /\ (i = Len(data) \/ data[i + 1] = LF) THEN <<>> ELSE <<data[i]>>)
         \o DropLineCR(data, i + 1)

\* the texts of the complete (non-partial) events, in order
RECURSIVE CompleteTexts(_)
CompleteTexts(events) ==
    IF Len(events) = 0 THEN <<>>
    ELSE (IF Head(events).partial THEN <<>> ELSE <<Head(events).text>>)
         \o CompleteTexts(Tail(events))

\* the handler just run read p from offset 0 with no partial held
FirstRead(p) ==
    \/ RegisterCall(p) /\ cfg.FromStart
    \/ SawTruncation(p)
    \/ ReadCall(p) /\ call.pre[p].offset = 0 /\ Len(call.pre[p].partial) = 0

\* C8: one read from offset 0 of bytes with no line over the ceiling gives the
\* lines and the partial of splitLines on all the bytes, whatever the chunks;
\* the complete lines with their terminators, then the partial, are the bytes
\* less each carriage return before a terminator or at the end
C8_RoundTrip ==
    \A p \in Tracked :
        (FirstRead(p) /\ NoLongLine(fs[p].data)) =>
            /\ CompleteTexts(call.events) = splitLines(fs[p].data).lines
            /\ states[p].partial = splitLines(fs[p].data).partial
            /\ Flatten(call.events) \o states[p].partial = DropLineCR(fs[p].data, 1)
            /\ \A i \in 1..Len(call.events) :
                  call.events[i].partial =>
                      i = Len(call.events) /\ call.events[i].text = states[p].partial
            /\ states[p].offset = Len(fs[p].data)

\* C8's case: a line longer than a read chunk, ended by CR LF, then a partial
C8_Witness ==
    \E p \in Tracked :
        /\ FirstRead(p) /\ NoLongLine(fs[p].data)
        /\ Len(call.events) = 2
        /\ Len(call.events[1].text) > ReadChunkSize
        /\ HasByte(fs[p].data, CR)
        /\ call.events[2].partial

-----------------------------------------------------------------------------
(* SpecTail: tailLastLines, and registration, on every content up to MaxTailLen *)

\* every content a writer can have produced: WriteByte at each offset
Contents(maxLen) ==
    UNION {{c \in [1..k -> Byte] : \A i \in 1..k : c[i] \in WriteByte(i - 1)} : k \in 0..maxLen}

InitTail ==
    /\ cfg \in Configs
    /\ fs \in {[p \in Paths |-> IF p = Root THEN Dir
                                ELSE IF p = PathA THEN RegularFile(c) ELSE NoFile] :
                 c \in Contents(MaxTailLen)}
    /\ states = EmptyStore
    /\ watchedDir = {Root}
    /\ call = NoCall
    /\ reg = EmptyStore
    /\ args = NoArgs
    /\ ret = NoArgs
    /\ LoopNotStarted

\* tailLastLines(p, n) is called on the file
TailCall(p, n) ==
    /\ fs[p].kind = "file"
    /\ args.op = "none"
    /\ args' = [op |-> "tailLastLines", path |-> p, n |-> n]
    /\ ret' = tailLastLines(fs[p].data, n)
    /\ UNCHANGED <<cfg, fs, states, watchedDir, call, reg, linesCh, errsCh, loop>>

NextTail ==
    \/ \E n \in 1..(MaxN + 1) : TailCall(PathA, n)
    \/ PathA \notin Tracked /\ HandleWrite(PathA, <<>>)

SpecTail == InitTail /\ [][NextTail]_vars

\* the positions of the terminators, the k-th of them (0 for k = 0), the k-th
\* complete line without its trailing carriage return, and what follows the last
\* terminator
LFs(data) == {i \in 1..Len(data) : data[i] = LF}
NthLF(data, k) ==
    IF k = 0 THEN 0
    ELSE CHOOSE i \in LFs(data) : Cardinality({j \in LFs(data) : j <= i}) = k
NthLine(data, k) ==
    WithoutLastCR(SubSeq(data, NthLF(data, k - 1) + 1, NthLF(data, k) - 1))
Fragment(data) == Tail2(data, NthLF(data, Cardinality(LFs(data))))

\* the last k complete lines of data (all of them when there are fewer)
LastLines(data, k) ==
    LET total == Cardinality(LFs(data))
        m == Min(k, total)
    IN  [i \in 1..m |-> NthLine(data, total - m + i)]

\* C6 as claimed: for a file ending with a terminator the last min(N, total)
\* complete lines and no partial; otherwise the last min(N-1, total) complete
\* lines and the unterminated fragment as the partial
C6_Claimed ==
    args.op = "tailLastLines" =>
        LET data == fs[args.path].data
        IN  IF Len(Fragment(data)) = 0
            THEN ret.lines = LastLines(data, args.n) /\ ret.partial = <<>>
            ELSE ret.lines = LastLines(data, args.n - 1) /\ ret.partial = Fragment(data)

\* C6 (amended): the partial is the fragment less one trailing carriage return,
\* and a fragment that is empty without it counts as none (N lines, no partial)
C6_TailLastLines ==
    args.op = "tailLastLines" =>
        LET data == fs[args.path].data
            frag == WithoutLastCR(Fragment(data))
        IN  IF Len(frag) = 0
            THEN ret.lines = LastLines(data, args.n) /\ ret.partial = <<>>
            ELSE ret.lines = LastLines(data, args.n - 1) /\ ret.partial = frag

\* C6's case: more lines than asked for, read in several backward chunks, a line
\* longer than a chunk among those returned, and a fragment
C6_Witness ==
    /\ args.op = "tailLastLines" /\ args.n = 2
    /\ Cardinality(LFs(fs[args.path].data)) >= 3
    /\ Len(ret.lines) = 1 /\ Len(ret.lines[1]) > ReadChunkSize
    /\ Len(ret.partial) > 0

\* a registration with a tail (not from the start) of N = 2 of a file of four
\* lines, the last one unterminated, free of carriage returns
FourLineStartup(p) ==
    /\ RegisterCall(p) /\ ~cfg.FromStart /\ cfg.N = 2
    /\ Cardinality(LFs(fs[p].data)) = 3
    /\ Len(Fragment(fs[p].data)) > 0
    /\ ~HasByte(fs[p].data, CR)

\* C7 as claimed: two complete line events for the last two complete lines, then
\* a partial event for the fragment, which becomes the held partial
C7_Claimed ==
    \A p \in Tracked :
        FourLineStartup(p) =>
            LET data == fs[p].data
            IN  /\ call.events = <<Line(p, NthLine(data, 2), FALSE, FALSE),
                                   Line(p, NthLine(data, 3), FALSE, FALSE),
                                   Line(p, Fragment(data), TRUE, FALSE)>>
                /\ states[p].partial = Fragment(data)

\* C7 (amended): one complete line event, for the last complete line (N - 1 of
\* them beside the partial), then the partial event; the fragment is held
C7_StartupTail ==
    \A p \in Tracked :
        FourLineStartup(p) =>
            LET data == fs[p].data
            IN  /\ call.events = <<Line(p, NthLine(data, 3), FALSE, FALSE),
                                   Line(p, Fragment(data), TRUE, FALSE)>>
                /\ states[p].partial = Fragment(data)
                /\ states[p].partialDisplayed
                /\ states[p].offset = Len(data)

C7_Witness ==
    \E p \in Tracked : FourLineStartup(p) /\ Len(NthLine(fs[p].data, 3)) > 0

-----------------------------------------------------------------------------
(* SpecFilter: shouldInclude over include and exclude lists *)

\* the values given as patterns: name globs, path globs, a glob with the "./"
\* prefix, and a regular expression
PatternValues ==
    {<<"a">>, <<"*">>, <<"d", Sep, "*">>, <<".", Sep, "d">>, <<RegexMark, "d">>}

PatternLists == UNION {[1..k -> PatternValues] : k \in 0..MaxPatterns}

PathB == Join(Root, <<"b">>)
FilterPaths == {PathA, PathB, PathD, PathDA}

InitFilter ==
    /\ cfg \in {[FromStart |-> FALSE, N |-> 0, Recursive |-> TRUE,
                 includes |-> compilePatterns(i, FALSE),
                 excludes |-> compilePatterns(e, FALSE)] :
                   i \in PatternLists, e \in PatternLists}
    /\ fs = [p \in Paths |-> IF p = Root THEN Dir ELSE NoFile]
    /\ states = EmptyStore
    /\ watchedDir = {Root}
    /\ call = NoCall
    /\ reg = EmptyStore
    /\ args = NoArgs
    /\ ret = NoArgs
    /\ LoopNotStarted

\* shouldInclude(p) is called
FilterCall(p) ==
    /\ args' = [op |-> "shouldInclude", path |-> p]
    /\ ret' = [value |-> shouldInclude(p)]
    /\ UNCHANGED <<cfg, fs, states, watchedDir, call, reg, linesCh, errsCh, loop>>

NextFilter == \E p \in FilterPaths : FilterCall(p)

SpecFilter == InitFilter /\ [][NextFilter]_vars

\* the path relative to the root and its last name, found by splitting the path
RelOf(path) == CHOOSE r \in {Tail2(path, k) : k \in 0..Len(path)} : path = Root \o <<Sep>> \o r
NameOf(path) ==
    CHOOSE b \in {Tail2(path, k) : k \in 0..Len(path)} :
        ~HasByte(b, Sep) /\ \E k \in 1..Len(path) : path[k] = Sep /\ b = Tail2(path, k)

\* what C9 says a pattern is matched against: a glob that names a separator
\* against the relative path only, another glob against the base name only
ClaimedMatch(pattern, path) ==
    IF pattern.kind = "regex" THEN RegexMatch(pattern.re, RelOf(path))
    ELSE IF HasByte(pattern.glob, Sep) THEN GlobMatch(pattern.glob, RelOf(path))
    ELSE GlobMatch(pattern.glob, NameOf(path))

\* C9: shouldInclude is true exactly when the include list is empty or one of
\* its patterns matches, and no exclude pattern matches
C9_ShouldInclude ==
    args.op = "shouldInclude" =>
        (ret.value <=>
            /\ \/ Len(cfg.includes) = 0
               \/ \E i \in 1..Len(cfg.includes) : ClaimedMatch(cfg.includes[i], args.path)
            /\ ~\E j \in 1..Len(cfg.excludes) : ClaimedMatch(cfg.excludes[j], args.path))

\* C9's case: a file in a subdirectory that a name glob includes and a path
\* glob excludes
C9_Witness ==
    /\ args.op = "shouldInclude" /\ args.path = PathDA
    /\ \E i \in 1..Len(cfg.includes) :
          ~cfg.includes[i].pathPattern /\ ClaimedMatch(cfg.includes[i], args.path)
    /\ \E j \in 1..Len(cfg.excludes) :
          cfg.excludes[j].pathPattern /\ ClaimedMatch(cfg.excludes[j], args.path)
    /\ ~ret.value

-----------------------------------------------------------------------------
(* SpecScan: reconciliation over a tree whose entries come and go *)

SymLink == [kind |-> "symfile", data |-> <<>>]
DirLink == [kind |-> "symdir", data |-> <<>>]

ScanConfigs ==
    {[FromStart |-> f, N |-> 0, Recursive |-> r, includes |-> <<>>, excludes |-> <<>>] :
        f \in BOOLEAN, r \in BOOLEAN}

\* after New, and the watch Start puts on the root when not recursive
InitScan ==
    /\ cfg \in ScanConfigs
    /\ fs = [p \in Paths |-> IF p = Root THEN Dir ELSE NoFile]
    /\ states = EmptyStore
    /\ watchedDir = IF cfg.Recursive THEN {} ELSE {Root}
    /\ call = NoCall
    /\ reg = EmptyStore
    /\ args = NoArgs
    /\ ret = NoArgs
    /\ LoopNotStarted

\* p can be made: nothing is there and its parent is a directory or a link to one
Vacant(p) ==
    /\ fs[p].kind = "none"
    /\ fs[Parent(p)].kind \in {"dir", "symdir"}

\* a regular file appears: empty text, or binary
CreateFile(p, data) ==
    /\ Vacant(p)
    /\ fs' = [fs EXCEPT ![p] = RegularFile(data)]
    /\ call' = NoCall
    /\ UNCHANGED <<cfg, states, watchedDir, reg, args, ret, linesCh, errsCh, loop>>

\* a link to a regular file, a directory, or a link to a directory appears
CreateOther(p, entry) ==
    /\ Vacant(p)
    /\ fs' = [fs EXCEPT ![p] = entry]
    /\ call' = NoCall
    /\ UNCHANGED <<cfg, states, watchedDir, reg, args, ret, linesCh, errsCh, loop>>

\* p is removed with everything beneath it
Remove(p) ==
    /\ fs[p].kind # "none"
    /\ fs' = [q \in Paths |-> IF q = p \/ HasPrefix(q, p \o <<Sep>>) THEN NoFile ELSE fs[q]]
    /\ call' = NoCall
    /\ UNCHANGED <<cfg, states, watchedDir, reg, args, ret, linesCh, errsCh, loop>>

\* a writer appends one byte to a regular file
ScanAppend(p, b) ==
    /\ fs[p].kind = "file"
    /\ Len(fs[p].data) < MaxScanLen
    /\ ~HasByte(fs[p].data, NUL)
    /\ b \in (WriteByte(Len(fs[p].data)) \ {CR})
    /\ fs' = [fs EXCEPT ![p].data = Append(@, b)]
    /\ call' = NoCall
    /\ UNCHANGED <<cfg, states, watchedDir, reg, args, ret, linesCh, errsCh, loop>>

\* a reconciliation pass: the one of Start, or one of the ticker
Scan ==
    /\ \E r \in {scanAndRegister(Outcome(states, watchedDir, <<>>, <<>>))} :
           /\ states' = r.o.states
           /\ watchedDir' = r.o.watchedDir
           /\ call' = [op |-> "scanAndRegister", path |-> Root, pre |-> states,
                       events |-> r.o.events, errs |-> r.o.errs, seen |-> r.seenFiles,
                       preDirs |-> watchedDir]
    /\ UNCHANGED <<cfg, fs, reg, args, ret, linesCh, errsCh, loop>>

NextScan ==
    \/ \E p \in {PathA, PathD, PathDA}, data \in {<<>>, <<NUL>>} : CreateFile(p, data)
    \/ \E p \in {PathA, PathDA} : CreateOther(p, SymLink)
    \/ \E entry \in {Dir, DirLink} : CreateOther(PathD, entry)
    \/ \E p \in {PathA, PathD, PathDA} : Remove(p)
    \/ \E p \in {PathA, PathD, PathDA}, b \in Byte : ScanAppend(p, b)
    \/ Scan

SpecScan == InitScan /\ [][NextScan]_vars

\* a fresh stat shows an existing regular file
StatsRegular(p) == fs[p].kind \in {"file", "symfile"}

Beneath(d) == {q \in Tracked : HasPrefix(q, d \o <<Sep>>)}

\* C11: after a recursive reconciliation pass a directory that was watched and
\* is deleted is out of the watch set and no file beneath it is in the store,
\* and every directory that was watched and stats as a directory is still watched
C11_PruneDirs ==
    (call.op = "scanAndRegister" /\ cfg.Recursive) =>
        \A d \in call.preDirs :
            /\ fs[d].kind = "none" => (d \notin watchedDir /\ Beneath(d) = {})
            /\ (Stat(d).err = "nil" /\ Stat(d).dir) => d \in watchedDir

\* C11's case: the pass found a watched directory deleted that had a tracked
\* file beneath it, while the root stayed watched
C11_Witness ==
    /\ call.op = "scanAndRegister" /\ cfg.Recursive
    /\ PathD \in call.preDirs /\ PathDA \in DOMAIN call.pre
    /\ fs[PathD].kind = "none"
    /\ PathD \notin watchedDir /\ PathDA \notin Tracked
    /\ Root \in watchedDir

-----------------------------------------------------------------------------
(* SpecEvents: notifications and reconciliation over the tree *)

Ops == {"create", "write", "remove", "rename"}

\* a notification for p is handled.  It comes from a watched directory, for
\* itself or for an entry of it, and may be late: the tree is as it is now
Notify(op, p) ==
    /\ p \in watchedDir \/ Parent(p) \in watchedDir
    /\ \E o \in {handleEvent(Outcome(states, watchedDir, <<>>, <<>>), {op}, p)} :
           /\ states' = o.states
           /\ watchedDir' = o.watchedDir
           /\ call' = [op |-> "handleEvent", kind |-> op, path |-> p, pre |-> states,
                       events |-> o.events, errs |-> o.errs, preDirs |-> watchedDir]
    /\ UNCHANGED <<cfg, fs, reg, args, ret, linesCh, errsCh, loop>>

\* a reconciliation pass during which the tracked file p is deleted after the
\* walk has listed it and before the pass reads it
ScanRace(p) ==
    /\ fs[p].kind = "file" /\ p \in Tracked
    /\ p \in {WalkOrder[i] : i \in 1..Len(WalkOrder)}
    /\ cfg.Recursive \/ Parent(p) = Root
    /\ cfg' = cfg
    /\ fs' = [fs EXCEPT ![p] = NoFile]
    /\ \E w \in {[o |-> Outcome(states, watchedDir, <<>>, <<>>),
                  seenFiles |-> {}, seenDirs |-> {}]},
          list \in {IF cfg.Recursive THEN WalkOrder ELSE RootEntries},
          recursive \in {cfg.Recursive} :
         \E r \in {(IF recursive THEN pruneAfterWalk(walk(w, list, TRUE))
                                 ELSE pruneAfterRoot(walk(w, list, FALSE)))'} :
             /\ states' = r.o.states
             /\ watchedDir' = r.o.watchedDir
             /\ call' = [op |-> "scanAndRegister", path |-> Root, pre |-> states,
                         events |-> r.o.events, errs |-> r.o.errs, seen |-> r.seenFiles,
                         preDirs |-> watchedDir, raced |-> p]
    /\ UNCHANGED <<reg, args, ret, linesCh, errsCh, loop>>

\* the permissions of a regular file change: os.Open fails, or succeeds again
Chmod(p) ==
    /\ fs[p].kind \in {"file", "noperm"}
    /\ fs' = [fs EXCEPT ![p].kind = IF @ = "file" THEN "noperm" ELSE "file"]
    /\ call' = NoCall
    /\ UNCHANGED <<cfg, states, watchedDir, reg, args, ret, linesCh, errsCh, loop>>

\* the configurations of SpecEvents: a new file is registered at its end
EventConfigs == {c \in ScanConfigs : ~c.FromStart}

InitEvents == InitScan /\ cfg \in EventConfigs

NextEvents ==
    \/ \E p \in {PathA, PathDA, PathDSib} : CreateFile(p, <<>>)
    \/ \E p \in {PathA, PathDA} : CreateOther(p, SymLink)
    \/ \E entry \in {Dir, DirLink} : CreateOther(PathD, entry)
    \/ \E p \in {PathA, PathD, PathDA, PathDSib} : Remove(p)
    \/ \E b \in Byte : ScanAppend(PathA, b)
    \/ Chmod(PathA)
    \/ Scan
    \/ \E p \in {PathA, PathDA} : ScanRace(p)
    \/ \E op \in Ops \ {"rename"}, p \in {PathA, PathD, PathDA, PathDSib} : Notify(op, p)
    \/ Notify("rename", PathD)

SpecEvents == InitEvents /\ [][NextEvents]_vars

\* the engine call just made is the handling of a notification of one of the kinds
Handled(kinds) == call.op = "handleEvent" /\ call.kind \in kinds

\* q lies under the directory d: d, a separator, then more
LiesUnder(q, d) ==
    Len(q) > Len(d) + 1 /\ q[Len(d) + 1] = Sep /\ \A i \in 1..Len(d) : q[i] = d[i]

\* C12: handling a removal or rename notification for a watched directory takes
\* it out of the watch set and every tracked file under it out of the store,
\* and leaves every other tracked file as it was, adding none
C12_RemoveDir ==
    (Handled({"remove", "rename"}) /\ call.path \in call.preDirs) =>
        /\ call.path \notin watchedDir
        /\ Tracked \subseteq DOMAIN call.pre
        /\ \A q \in DOMAIN call.pre :
              IF LiesUnder(q, call.path) THEN q \notin Tracked
              ELSE q \in Tracked /\ states[q] = call.pre[q]

\* C12's case: the watched directory had a tracked file in it and a tracked
\* file beside it whose name starts with its name
C12_Witness ==
    /\ Handled({"remove", "rename"}) /\ call.path = PathD /\ PathD \in call.preDirs
    /\ {PathDA, PathDSib, PathA} \subseteq DOMAIN call.pre
    /\ PathDA \notin Tracked /\ PathDSib \in Tracked

\* C13: no tracked path is a link to a file and no watched path is a link to
\* a directory
C13_NoLinkFollowed ==
    /\ \A p \in Tracked : fs[p].kind # "symfile"
    /\ \A d \in watchedDir : fs[d].kind # "symdir"

\* C14: when not recursive the watch set holds no directory but the root and
\* every tracked file is an entry of the root
C14_NonRecursive ==
    ~cfg.Recursive =>
        /\ watchedDir \subseteq {Root}
        /\ \A p \in Tracked : \E name \in {Tail2(p, Len(Root) + 1)} :
              p = Join(Root, name) /\ ~HasByte(name, Sep)

\* C14's case: not recursive, a creation notification for a subdirectory that
\* holds a file is handled while a file of the root is tracked
C14_Witness ==
    /\ ~cfg.Recursive /\ Handled({"create"}) /\ call.path = PathD
    /\ fs[PathD].kind = "dir" /\ fs[PathDA].kind = "file"
    /\ PathA \in Tracked /\ watchedDir = {Root}

\* the pass just made had the tracked file call.raced deleted under it
RacedPass == call.op = "scanAndRegister" /\ "raced" \in DOMAIN call

\* C19: when the incremental read of a tracked file finds the file gone, in a
\* write notification or in a reconciliation pass, the file leaves the store
\* and no error is queued; on another read error the error is queued and the
\* file stays tracked
C19_NotFoundDeregisters ==
    /\ (Handled({"write"}) /\ call.path \in DOMAIN call.pre /\ fs[call.path].kind = "none") =>
          (call.path \notin Tracked /\ call.errs = <<>>)
    /\ RacedPass =>
          (call.raced \notin Tracked /\ call.errs = <<>>)
    /\ (Handled({"write"}) /\ call.path \in DOMAIN call.pre /\ fs[call.path].kind = "noperm"
          /\ call.pre[call.path].offset # Len(fs[call.path].data)) =>
          (call.path \in Tracked /\ call.errs = <<"EACCES">>)

\* what holds of it: the same for the write notification alone
NotFoundOnWrite ==
    /\ (Handled({"write"}) /\ call.path \in DOMAIN call.pre /\ fs[call.path].kind = "none") =>
          (call.path \notin Tracked /\ call.errs = <<>>)
    /\ (Handled({"write"}) /\ call.path \in DOMAIN call.pre /\ fs[call.path].kind = "noperm"
          /\ call.pre[call.path].offset # Len(fs[call.path].data)) =>
          (call.path \in Tracked /\ call.errs = <<"EACCES">>)

-----------------------------------------------------------------------------
(* SpecQueue: sendLine, select by select, against a consumer *)

\* a seeded fault: the second select of sendLine receives nothing
dropNone(q) == q

\* the second select of sendLine: the oldest line is received if there is one
dropOldest(q) == IF Len(q) > 0 THEN Tail(q) ELSE q

\* a send on the buffered channel can proceed
CanSend(q) == Len(q) < LinesCap

\* the lines are numbered in the order the loop sends them; args holds the
\* number of the next one, ret what the consumer received, in order
InitQueue ==
    /\ cfg \in {c \in ScanConfigs : c.Recursive /\ ~c.FromStart}
    /\ fs = [p \in Paths |-> IF p = Root THEN Dir ELSE NoFile]
    /\ states = EmptyStore
    /\ watchedDir = {Root}
    /\ call = NoCall
    /\ reg = EmptyStore
    /\ args = [op |-> "sendLine", next |-> 1]
    /\ ret = [op |-> "receive", received |-> <<>>]
    /\ linesCh = <<>> /\ errsCh = <<>>
    /\ loop = [IdleLoop EXCEPT !.pc = "running"]

\* sendLine returns: call records the line and whether it was put in the queue
SendReturn(line, enqueued) ==
    /\ call' = [op |-> "sendLine", line |-> line, enqueued |-> enqueued]
    /\ loop' = [loop EXCEPT !.send = [pc |-> "none"]]

\* the loop calls sendLine(line): the first select
SendFirst(line) ==
    /\ loop.send.pc = "none" /\ line = args.next /\ line <= MaxSends
    /\ args' = [args EXCEPT !.next = line + 1]
    /\ IF CanSend(linesCh)
       THEN linesCh' = Append(linesCh, line) /\ SendReturn(line, TRUE)
       ELSE /\ linesCh' = linesCh
            /\ call' = NoCall
            /\ loop' = [loop EXCEPT !.send = [pc |-> "drain", line |-> line]]
    /\ UNCHANGED <<cfg, fs, states, watchedDir, reg, ret, errsCh>>

\* the second select: make room
SendDrain ==
    /\ loop.send.pc = "drain"
    /\ linesCh' = dropOldest(linesCh)
    /\ loop' = [loop EXCEPT !.send.pc = "retry"]
    /\ UNCHANGED <<cfg, fs, states, watchedDir, call, reg, args, ret, errsCh>>

\* the third select: send, or give up
SendRetry ==
    /\ loop.send.pc = "retry"
    /\ IF CanSend(linesCh)
       THEN linesCh' = Append(linesCh, loop.send.line) /\ SendReturn(loop.send.line, TRUE)
       ELSE linesCh' = linesCh /\ SendReturn(loop.send.line, FALSE)
    /\ UNCHANGED <<cfg, fs, states, watchedDir, reg, args, ret, errsCh>>

\* the consumer receives the oldest line
Receive ==
    /\ Len(linesCh) > 0
    /\ linesCh' = Tail(linesCh)
    /\ ret' = [ret EXCEPT !.received = Append(@, Head(linesCh))]
    /\ UNCHANGED <<cfg, fs, states, watchedDir, call, reg, args, errsCh, loop>>

NextQueue ==
    \/ \E line \in 1..MaxSends : SendFirst(line)
    \/ SendDrain
    \/ SendRetry
    \/ Receive

SpecQueue == InitQueue /\ [][NextQueue]_vars

\* the sequence of numbers rises strictly
Rising(q) == \A i \in 1..(Len(q) - 1) : q[i] < q[i + 1]

\* C15: when sendLine returns its line has been put in the queue; the queue
\* never exceeds its capacity; what was received and what is queued are in the
\* order of sending
C15_DropOldest ==
    /\ call.op = "sendLine" => call.enqueued
    /\ (call.op = "sendLine" /\ loop.send.pc = "none" /\ args.next = call.line + 1) =>
          \/ (Len(linesCh) > 0 /\ linesCh[Len(linesCh)] = call.line)
          \/ (Len(ret.received) > 0 /\ ret.received[Len(ret.received)] = call.line)
    /\ Len(linesCh) <= LinesCap
    /\ Rising(ret.received \o linesCh)

\* C15's case: the queue was full, the oldest line was discarded (it is neither
\* received nor queued) and the new one is queued
C15_Witness ==
    /\ call.op = "sendLine" /\ call.enqueued /\ Len(linesCh) = LinesCap
    /\ linesCh[Len(linesCh)] = call.line
    /\ \E k \in 1..call.line :
          /\ \A i \in 1..Len(linesCh) : linesCh[i] # k
          /\ \A i \in 1..Len(ret.received) : ret.received[i] # k

-----------------------------------------------------------------------------
(* SpecLoop: Start, the control loop, cancellation and shutdown *)

\* sendLine as one step of the loop: the line is queued, the oldest one
\* discarded when the queue is full
sendLine(q, line) == IF CanSend(q) THEN Append(q, line) ELSE Append(dropOldest(q), line)

\* sendErr: the error is queued, or discarded when the queue is full
sendErr(q, err) == IF Len(q) < ErrsCap THEN Append(q, err) ELSE q

RECURSIVE sendLines(_, _)
sendLines(q, events) ==
    IF Len(events) = 0 THEN q ELSE sendLines(sendLine(q, Head(events)), Tail(events))

RECURSIVE sendErrs(_, _)
sendErrs(q, errors) ==
    IF Len(errors) = 0 THEN q ELSE sendErrs(sendErr(q, Head(errors)), Tail(errors))

\* a seeded fault: the completion signal is closed first
CloseOrderDoneFirst == <<"done", "watcher", "lines", "errs">>

\* the deferred function of loop: what is closed, in order
CloseOrder == <<"watcher", "lines", "errs", "done">>

LoopConfigs == {c \in ScanConfigs : ~c.FromStart}

\* after New, with two text files in the root
InitLoop ==
    /\ cfg \in LoopConfigs
    /\ fs = [p \in Paths |-> IF p = Root THEN Dir
                             ELSE IF p \in {PathA, PathDSib} THEN RegularFile(<<>>)
                             ELSE NoFile]
    /\ states = EmptyStore
    /\ watchedDir = {}
    /\ call = NoCall
    /\ reg = EmptyStore
    /\ args = NoArgs
    /\ ret = NoArgs
    /\ LoopNotStarted

\* the incremental reads of a handler that consumed bytes of a tracked file
ReadsOf(pre, o) ==
    Cardinality({q \in DOMAIN pre \cap DOMAIN o.states : o.states[q].offset # pre[q].offset})

\* what a handler of the loop leaves: store, watch set, queues, and the count
\* of the reads made after the cancellation
Handler(o, record) ==
    /\ states' = o.states
    /\ watchedDir' = o.watchedDir
    /\ linesCh' = sendLines(linesCh, o.events)
    /\ errsCh' = sendErrs(errsCh, o.errs)
    /\ call' = record
    /\ loop' = [loop EXCEPT !.lateReads = IF loop.cancelled THEN @ + ReadsOf(states, o) ELSE @]
    /\ UNCHANGED <<cfg, fs, reg, args, ret>>

\* Start: the watch on the root when not recursive, the first pass, the loop
Start ==
    /\ loop.pc = "idle"
    /\ \E r \in {scanAndRegister(
                    IF cfg.Recursive THEN Outcome(states, watchedDir, <<>>, <<>>)
                    ELSE addWatch(Outcome(states, watchedDir, <<>>, <<>>), Root))} :
           /\ states' = r.o.states
           /\ watchedDir' = r.o.watchedDir
           /\ linesCh' = sendLines(linesCh, r.o.events)
           /\ errsCh' = sendErrs(errsCh, r.o.errs)
           /\ call' = [op |-> "Start", path |-> Root, pre |-> states,
                       events |-> r.o.events, errs |-> r.o.errs]
    /\ loop' = [loop EXCEPT !.pc = "running"]
    /\ UNCHANGED <<cfg, fs, reg, args, ret>>

\* the external cancellation signal is raised
Cancel ==
    /\ ~loop.cancelled
    /\ loop' = [loop EXCEPT !.cancelled = TRUE]
    /\ UNCHANGED <<cfg, fs, states, watchedDir, call, reg, args, ret, linesCh, errsCh>>

\* the watcher's channels are closed under the running loop
WatcherCloses ==
    /\ loop.pc = "running" /\ loop.eventsOpen
    /\ loop' = [loop EXCEPT !.eventsOpen = FALSE]
    /\ UNCHANGED <<cfg, fs, states, watchedDir, call, reg, args, ret, linesCh, errsCh>>

\* the select of the loop can take a case other than the cancellation: any
\* ready case may be chosen, the cancellation raised or not
Selecting == loop.pc = "running" /\ loop.lateReads < MaxLateReads

\* case event := <-t.watcher.Events
LoopEvent(op, p) ==
    /\ Selecting /\ loop.eventsOpen
    /\ p \in watchedDir \/ Parent(p) \in watchedDir
    /\ \E o \in {handleEvent(Outcome(states, watchedDir, <<>>, <<>>), {op}, p)} :
           Handler(o, [op |-> "handleEvent", kind |-> op, path |-> p, pre |-> states,
                       events |-> o.events, errs |-> o.errs, preDirs |-> watchedDir])

\* a seeded fault: an error of the watcher ends the loop
LoopWatcherErrorFatal ==
    /\ Selecting /\ loop.eventsOpen
    /\ loop' = [loop EXCEPT !.pc = "closing"]
    /\ UNCHANGED <<cfg, fs, states, watchedDir, call, reg, args, ret, linesCh, errsCh>>

\* case err := <-t.watcher.Errors
LoopWatcherError ==
    /\ Selecting /\ loop.eventsOpen
    /\ Handler(Outcome(states, watchedDir, <<>>, <<"EWATCH">>),
               [op |-> "watcherError", path |-> Root, pre |-> states,
                events |-> <<>>, errs |-> <<"EWATCH">>])

\* case <-t.tickChan(ticker)
LoopTick ==
    /\ Selecting
    /\ \E r \in {scanAndRegister(Outcome(states, watchedDir, <<>>, <<>>))} :
           Handler(r.o, [op |-> "scanAndRegister", path |-> Root, pre |-> states,
                         events |-> r.o.events, errs |-> r.o.errs, seen |-> r.seenFiles,
                         preDirs |-> watchedDir])

\* case <-ctxDone: return
LoopCancelled ==
    /\ loop.pc = "running" /\ loop.cancelled
    /\ loop' = [loop EXCEPT !.pc = "closing"]
    /\ UNCHANGED <<cfg, fs, states, watchedDir, call, reg, args, ret, linesCh, errsCh>>

\* a receive from a closed channel of the watcher (!ok): return
LoopChannelClosed ==
    /\ loop.pc = "running" /\ ~loop.eventsOpen
    /\ loop' = [loop EXCEPT !.pc = "closing"]
    /\ UNCHANGED <<cfg, fs, states, watchedDir, call, reg, args, ret, linesCh, errsCh>>

\* one close of the deferred function; after the last the loop is stopped
LoopClose ==
    /\ loop.pc = "closing"
    /\ loop' = [loop EXCEPT !.closed = Append(@, CloseOrder[Len(@) + 1]),
                            !.eventsOpen = FALSE,
                            !.pc = IF Len(loop.closed) + 1 = Len(CloseOrder)
                                   THEN "stopped" ELSE "closing"]
    /\ UNCHANGED <<cfg, fs, states, watchedDir, call, reg, args, ret, linesCh, errsCh>>

\* the consumer receives a line, or an error
Consume ==
    /\ \/ Len(linesCh) > 0 /\ linesCh' = Tail(linesCh) /\ errsCh' = errsCh
       \/ Len(errsCh) > 0 /\ errsCh' = Tail(errsCh) /\ linesCh' = linesCh
    /\ UNCHANGED <<cfg, fs, states, watchedDir, call, reg, args, ret, loop>>

NextLoop ==
    \/ Start
    \/ Cancel
    \/ WatcherCloses
    \/ \E p \in {PathA, PathDSib} : LoopEvent("write", p)
    \/ LoopWatcherError
    \/ LoopTick
    \/ LoopCancelled
    \/ LoopChannelClosed
    \/ LoopClose
    \/ Consume
    \/ \E p \in {PathA, PathDSib}, b \in Byte : ScanAppend(p, b)
    \/ Chmod(PathA)

SpecLoop == InitLoop /\ [][NextLoop]_vars

\* the select takes a ready case, the deferred closes are run
SpecLoopFair == SpecLoop /\ WF_vars(LoopCancelled) /\ WF_vars(LoopClose)

\* x is among the things the loop has closed
Closed(x) == \E i \in 1..Len(loop.closed) : loop.closed[i] = x

\* C16: once the running loop is cancelled it comes to a stop; the watcher, the
\* line queue, the error queue and the completion signal are closed in this
\* order, each once; when the completion signal is closed both queues are; and
\* nothing is sent after that
C16_Shutdown ==
    /\ (loop.pc = "running" /\ loop.cancelled) ~> (loop.pc = "stopped")
    /\ [](loop.closed = SubSeq(<<"watcher", "lines", "errs", "done">>, 1, Len(loop.closed)))
    /\ [](loop.pc = "stopped" <=> Closed("done"))
    /\ [][Closed("done") => (Len(linesCh') <= Len(linesCh) /\ Len(errsCh') <= Len(errsCh))]_vars

\* C16's case: a cancelled loop that sent lines and an error has stopped with
\* all four closed
C16_Witness ==
    /\ loop.pc = "stopped" /\ loop.cancelled /\ loop.eventsOpen = FALSE
    /\ Len(loop.closed) = 4
    /\ Len(linesCh) > 0 /\ Len(errsCh) > 0

\* the handler just run sent an error for the file p and left every other
\* tracked file as it was (a write notification) or as its own incremental
\* read leaves it (a pass)
ErrorIsolated ==
    /\ (Handled({"write"}) /\ call.errs # <<>>) =>
          \A q \in DOMAIN call.pre \ {call.path} :
              q \in Tracked /\ states[q] = call.pre[q]
    /\ (call.op = "scanAndRegister" /\ call.errs # <<>>) =>
          \A q \in DOMAIN call.pre :
              (fs[q].kind = "file") =>
                  (q \in Tracked /\ states[q] = readNew(q, call.pre[q]).state)

C18_OneLateRead == loop.lateReads <= 1

-----------------------------------------------------------------------------
(* SpecScanFair: reconciliation with a ticker *)

\* a positive ScanInterval: a pass that has something to do is made
SpecScanFair == SpecScan /\ WF_vars(Scan)

\* the tracked file q is a regular file, not a link, that a pass walks to
Walked(q) == fs[q].kind = "file" /\ Reached(q) /\ (cfg.Recursive \/ Parent(q) = Root)

\* every tracked file a pass walks to has been read to its end
AllCaughtUp == \A q \in Tracked : Walked(q) => states[q].offset = Len(fs[q].data)

\* the pass just made read the bytes appended to q since the stored offset:
\* its complete lines and the partial it holds are the partial held before
\* followed by those bytes, and the offset is the size
ReadAppended(q) ==
    /\ states[q].offset = Len(fs[q].data)
    /\ Flatten(EventsOf(call.events, q)) \o states[q].partial
          = call.pre[q].partial \o Tail2(fs[q].data, call.pre[q].offset)

\* C20: a pass reads every tracked file it walks to that has grown and emits
\* the bytes appended since the stored offset; with a ticker, again and again
\* every such file has been read to its end
C20_CatchUp ==
    /\ [](call.op = "scanAndRegister" =>
            \A q \in DOMAIN call.pre :
                (Walked(q) /\ Len(fs[q].data) > call.pre[q].offset) =>
                    (q \in Tracked /\ ReadAppended(q)))
    /\ []<>AllCaughtUp

\* C20's case: a pass found a tracked file grown by a complete line, with no
\* notification handled, and sent the line
C20_Witness ==
    /\ call.op = "scanAndRegister"
    /\ \E q \in DOMAIN call.pre :
          /\ Walked(q) /\ Len(fs[q].data) > call.pre[q].offset
          /\ Len(EventsOf(call.events, q)) > 0
          /\ states[q].offset = Len(fs[q].data)

-----------------------------------------------------------------------------
(* SpecRegister: registration by notifications and by reconciliation, over
   files with an initial content and a filter *)

\* registration from the start, at the end, or after the last line; the filter
\* is empty or excludes what lies in the directory d
RegisterConfigs ==
    {c \in {[FromStart |-> f, N |-> n, Recursive |-> TRUE, includes |-> <<>>,
             excludes |-> compilePatterns(e, FALSE)] :
                f \in BOOLEAN, n \in 0..1, e \in {<<>>, << <<"d", Sep, "*">> >>}} :
        c.FromStart => c.N = 0}

\* what a file holds when it appears: nothing, one line, or binary data
InitialContents == {<<>>, <<"a", LF>>, <<NUL>>}

InitRegister ==
    /\ cfg \in RegisterConfigs
    /\ fs = [p \in Paths |-> IF p = Root THEN Dir ELSE NoFile]
    /\ states = EmptyStore
    /\ watchedDir = {}
    /\ call = NoCall
    /\ reg = EmptyStore
    /\ args = NoArgs
    /\ ret = NoArgs
    /\ LoopNotStarted

\* the sets of kinds a notification carries here: one kind, a creation
\* coalesced with a write, and a removal or a rename coalesced with others
OpSets ==
    {{"create"}, {"write"}, {"create", "write"}, {"remove"},
     {"remove", "create", "write"}, {"rename", "write"}}

\* a notification carrying the kinds of op for p is handled
Dispatch(op, p) ==
    /\ p \in watchedDir \/ Parent(p) \in watchedDir
    /\ \E o \in {handleEvent(Outcome(states, watchedDir, <<>>, <<>>), op, p)} :
           /\ states' = o.states
           /\ watchedDir' = o.watchedDir
           /\ call' = [op |-> "handleEvent", kinds |-> op, path |-> p, pre |-> states,
                       events |-> o.events, errs |-> o.errs, preDirs |-> watchedDir]
    /\ UNCHANGED <<cfg, fs, reg, args, ret, linesCh, errsCh, loop>>

\* a creation notification for the new file p is handled, and between the
\* classification of ensureFile and its initFile the file is removed or made
\* unreadable
RegisterRace(p, entry) ==
    /\ p \in watchedDir \/ Parent(p) \in watchedDir
    /\ fs[p].kind = "file" /\ p \notin Tracked
    /\ shouldInclude(p) /\ isTextFile(p).err = "nil" /\ isTextFile(p).isText
    /\ cfg' = cfg
    /\ fs' = [fs EXCEPT ![p] = IF entry = "none" THEN NoFile ELSE Unreadable(fs[p].data)]
    /\ \E o0 \in {Outcome(states, watchedDir, <<>>, <<>>)},
          data \in {fs[p].data} :
         \E o \in {(CHOOSE v \in {stored(o0, p, r) :
                                    r \in {initFile(p, NoState, data, Len(data))}} : TRUE)'} :
             /\ states' = o.states
             /\ watchedDir' = o.watchedDir
             /\ call' = [op |-> "handleEvent", kinds |-> {"create"}, path |-> p, pre |-> states,
                         events |-> o.events, errs |-> o.errs, preDirs |-> watchedDir,
                         raced |-> p]
    /\ UNCHANGED <<reg, args, ret, linesCh, errsCh, loop>>

NextRegister ==
    \/ \E data \in InitialContents : CreateFile(PathA, data)
    \/ CreateFile(PathDA, <<"a", LF>>)
    \/ CreateOther(PathA, SymLink)
    \/ \E entry \in {Dir, DirLink} : CreateOther(PathD, entry)
    \/ \E p \in {PathA, PathD, PathDA} : Remove(p)
    \/ \E b \in Byte : ScanAppend(PathA, b)
    \/ Scan
    \/ \E op \in OpSets, p \in {PathA, PathD, PathDA} : Dispatch(op, p)
    \/ \E entry \in {"none", "noperm"} : RegisterRace(PathA, entry)

SpecRegister == InitRegister /\ [][NextRegister]_vars

\* the engine call just made is a reconciliation pass over a tree that did not
\* change under it
QuietPass == call.op = "scanAndRegister" /\ "raced" \notin DOMAIN call

\* C21: after a recursive pass every regular file the walk reaches that is not
\* a link, passes the filter and is classified text is in the store, and every
\* directory the walk reaches that is not a link, the root included, is in the
\* watch set
C21_Discovery ==
    (QuietPass /\ cfg.Recursive) =>
        \A p \in Paths :
            /\ (fs[p].kind = "file" /\ Reached(p) /\ shouldInclude(p)
                   /\ isTextFile(p).err = "nil" /\ isTextFile(p).isText) => p \in Tracked
            /\ (fs[p].kind = "dir" /\ Reached(p)) => p \in watchedDir

\* C21's case: the pass found a file in a subdirectory and neither was known
\* before it, beside a file the filter or the classifier keeps out
C21_Witness ==
    /\ QuietPass /\ cfg.Recursive /\ Len(cfg.excludes) = 0
    /\ PathD \notin call.preDirs /\ PathDA \notin DOMAIN call.pre
    /\ PathD \in watchedDir /\ PathDA \in Tracked
    /\ fs[PathA].kind = "file" /\ PathA \notin Tracked

\* the paths whose entry the engine call just made created
Registered ==
    IF call.op \in {"handleEvent", "scanAndRegister"} THEN Tracked \ DOMAIN call.pre ELSE {}

\* C22: an entry that registration has just created, for a file that exists,
\* holds the size of the file as its offset, whatever initFile did and also
\* when initFile returned an error
C22_RegistrationOffset ==
    \A q \in Registered : fs[q].kind # "none" => states[q].offset = Len(fs[q].data)

\* what holds of it: the same when initFile returned no error
OffsetAfterInit ==
    \A q \in Registered :
        (fs[q].kind # "none" /\ call.errs = <<>>) => states[q].offset = Len(fs[q].data)

\* registration whose initFile failed ran, and left the entry it had made
InitFailed ==
    /\ "raced" \in DOMAIN call /\ call.op = "handleEvent"
    /\ call.raced \in Registered /\ call.errs # <<>>

\* the engine call just made handled a notification carrying exactly these kinds
Dispatched(kinds) == call.op = "handleEvent" /\ call.kinds = kinds

\* the lines and the unfinished line a content is made of
Pieces(data) ==
    CountByte(data, LF) + (IF Len(data) > 0 /\ data[Len(data)] # LF THEN 1 ELSE 0)

\* C23: a creation notification for a tracked path, which calls ensureFile on
\* it, sends no line and leaves the entry as it was; a notification carrying
\* creation and write for a new file sends no byte of the file twice: what it
\* sent, with the partial it holds, is an end of the content, in no more
\* events than the content has lines
C23_NoDuplicate ==
    /\ (Dispatched({"create"}) /\ call.path \in DOMAIN call.pre /\ Stat(call.path).regular) =>
          /\ call.events = <<>>
          /\ call.path \in Tracked /\ states[call.path] = call.pre[call.path]
    /\ (Dispatched({"create", "write"}) /\ call.path \in Registered) =>
          /\ Len(call.events) <= Pieces(fs[call.path].data)
          /\ \E k \in 0..Len(fs[call.path].data) :
                Flatten(call.events) \o states[call.path].partial = Tail2(fs[call.path].data, k)

\* C23's case: a creation notification came for a tracked file that had grown
\* since it was read, and one notification carrying creation and write
\* registered a file and sent its line
C23_Witness ==
    \/ /\ Dispatched({"create"}) /\ call.path \in DOMAIN call.pre
       /\ fs[call.path].kind = "file"
       /\ call.pre[call.path].offset < Len(fs[call.path].data)
    \/ /\ Dispatched({"create", "write"}) /\ call.path \in Registered
       /\ Len(call.events) = 1 /\ ~call.events[1].partial

\* the engine call just made handled a notification with a removal or a rename
\* among its kinds
DispatchedRemoval ==
    call.op = "handleEvent" /\ call.kinds \cap {"remove", "rename"} # {}

\* C24: a notification with a removal or a rename among its kinds only prunes:
\* the path is neither tracked nor watched after it, nothing is sent, no entry
\* is made and no entry that stays is touched.  A write notification for an
\* untracked path that stats as a regular file registers it as a creation
\* would (tracked exactly when included text, the offset at the size, nothing
\* sent when registration is at the end, all of it when from the start).  A
\* write notification for a tracked file that has grown reads what was
\* appended, and sends nothing when the size is the stored offset
C24_Dispatch ==
    /\ DispatchedRemoval =>
          /\ call.path \notin Tracked /\ call.path \notin watchedDir
          /\ call.events = <<>> /\ call.errs = <<>>
          /\ Registered = {}
          /\ \A q \in Tracked : states[q] = call.pre[q]
    /\ (Dispatched({"write"}) /\ call.path \notin DOMAIN call.pre
           /\ fs[call.path].kind = "file") =>
          /\ call.path \in Tracked <=>
                (shouldInclude(call.path) /\ isTextFile(call.path).isText)
          /\ call.path \in Tracked =>
                /\ states[call.path].offset = Len(fs[call.path].data)
                /\ (~cfg.FromStart /\ cfg.N = 0) => call.events = <<>>
                /\ cfg.FromStart =>
                      Flatten(call.events) \o states[call.path].partial = fs[call.path].data
    /\ (Dispatched({"write"}) /\ call.path \in DOMAIN call.pre
           /\ fs[call.path].kind = "file"
           /\ call.pre[call.path].offset <= Len(fs[call.path].data)) =>
          /\ call.path \in Tracked /\ ReadAppended(call.path)
          /\ call.pre[call.path].offset = Len(fs[call.path].data) =>
                (call.events = <<>> /\ states[call.path] = call.pre[call.path])

\* C24's case: a notification carrying removal, creation and write came for a
\* tracked file that is still there
C24_Witness ==
    /\ Dispatched({"remove", "create", "write"})
    /\ call.path \in DOMAIN call.pre /\ fs[call.path].kind = "file"
    /\ Len(fs[call.path].data) > 0

\* a write notification registered an unknown file whose line it did not send
C24_WriteRegisters ==
    /\ Dispatched({"write"}) /\ call.path \in Registered
    /\ Len(fs[call.path].data) > 0 /\ call.events = <<>>

\* a write notification read what was appended to a tracked file
C24_WriteReads ==
    /\ Dispatched({"write"}) /\ call.path \in DOMAIN call.pre
    /\ fs[call.path].kind = "file" /\ call.events # <<>>
    /\ call.pre[call.path].offset < Len(fs[call.path].data)

\* C28: every entry an engine call has just made is for a path that passes the
\* filter and, as the tree was when ensureFile classified it, is text; and no
\* tracked path is one the filter keeps out
C28_FilteredText ==
    /\ \A q \in Registered :
          /\ shouldInclude(q)
          /\ "raced" \in DOMAIN call \/ (isTextFile(q).err = "nil" /\ isTextFile(q).isText)
    /\ \A q \in Tracked : shouldInclude(q)

\* C28's case: with the filter set, the creation notification of a directory
\* holding an excluded text file was handled and the file was not registered
C28_Witness ==
    /\ Len(cfg.excludes) > 0
    /\ Dispatched({"create"}) /\ call.path = PathD /\ PathD \in watchedDir
    /\ fs[PathDA].kind = "file" /\ isTextFile(PathDA).isText /\ ~shouldInclude(PathDA)
    /\ PathDA \notin Tracked

\* a pass met a binary file the filter lets through and did not register it
C28_BinaryMet ==
    /\ QuietPass /\ fs[PathA].kind = "file" /\ ~isTextFile(PathA).isText
    /\ shouldInclude(PathA) /\ PathA \notin Tracked

-----------------------------------------------------------------------------
(* SpecWatch: subscriptions of directories that come, go and fail *)

WatchConfigs == {c \in ScanConfigs : c.Recursive /\ ~c.FromStart}

InitWatch == InitScan /\ cfg \in WatchConfigs

\* the sets of directories on which watcher.Add fails during one engine call
FailingSets == SUBSET {PathD, PathDE}

\* a reconciliation pass during which watcher.Add fails on the directories of failing
WatchScan(failing) ==
    /\ \E r \in {scanAndRegister([Outcome(states, watchedDir, <<>>, <<>>)
                                     EXCEPT !.failing = failing])} :
           /\ states' = r.o.states
           /\ watchedDir' = r.o.watchedDir
           /\ call' = [op |-> "scanAndRegister", path |-> Root, pre |-> states,
                       events |-> r.o.events, errs |-> r.o.errs, seen |-> r.seenFiles,
                       preDirs |-> watchedDir, adds |-> r.o.adds, failing |-> failing]
    /\ UNCHANGED <<cfg, fs, reg, args, ret, linesCh, errsCh, loop>>

\* a notification for p is handled while watcher.Add fails on the directories
\* of failing
WatchNotify(op, p, failing) ==
    /\ p \in watchedDir \/ Parent(p) \in watchedDir
    /\ \E o \in {handleEvent([Outcome(states, watchedDir, <<>>, <<>>)
                                 EXCEPT !.failing = failing], op, p)} :
           /\ states' = o.states
           /\ watchedDir' = o.watchedDir
           /\ call' = [op |-> "handleEvent", kinds |-> op, path |-> p, pre |-> states,
                       events |-> o.events, errs |-> o.errs, preDirs |-> watchedDir,
                       adds |-> o.adds, failing |-> failing]
    /\ UNCHANGED <<cfg, fs, reg, args, ret, linesCh, errsCh, loop>>

NextWatch ==
    \/ \E p \in {PathA, PathDA} : CreateFile(p, <<>>)
    \/ \E p \in {PathD, PathDE}, entry \in {Dir, DirLink} : CreateOther(p, entry)
    \/ \E p \in {PathD, PathDA, PathDE} : Remove(p)
    \/ \E failing \in FailingSets : WatchScan(failing)
    \/ \E op \in {{"create"}, {"remove"}, {"rename"}}, p \in {PathD, PathDA, PathDE},
          failing \in FailingSets : WatchNotify(op, p, failing)

SpecWatch == InitWatch /\ [][NextWatch]_vars

\* q is the directory d or lies under it
Within(q, d) == q = d \/ LiesUnder(q, d)

\* C25: when recursive, after the creation notification of a directory that
\* is not a link, the directory and every directory the walk reaches beneath
\* it that is not a link is watched unless its subscription failed, and every
\* included text file the walk reaches beneath it is tracked, the subscription
\* of the directory failed or not; a failed subscription leaves an error
C25_NewDirectory ==
    (cfg.Recursive /\ Dispatched({"create"}) /\ fs[call.path].kind = "dir") =>
        /\ \A d \in Paths :
              (Within(d, call.path) /\ fs[d].kind = "dir" /\ Reached(d)) =>
                  IF d \in call.failing /\ d \notin call.preDirs
                  THEN d \notin watchedDir /\ \E i \in 1..Len(call.errs) : call.errs[i] = "ENOSPC"
                  ELSE d \in watchedDir
        /\ \A q \in Paths :
              (LiesUnder(q, call.path) /\ fs[q].kind = "file" /\ Reached(q)
                  /\ shouldInclude(q) /\ isTextFile(q).isText) => q \in Tracked

\* C25's case: the new directory holds a file, a directory and nothing was
\* known of them; the subscription of the new directory failed and the file
\* was registered all the same
C25_Witness ==
    /\ Dispatched({"create"}) /\ call.path = PathD /\ fs[PathD].kind = "dir"
    /\ PathD \in call.failing /\ PathD \notin watchedDir
    /\ fs[PathDE].kind = "dir" /\ PathDE \notin call.preDirs /\ PathDE \in watchedDir
    /\ fs[PathDA].kind = "file" /\ PathDA \notin DOMAIN call.pre /\ PathDA \in Tracked

\* C26: after a removal or rename notification for a watched directory has
\* been handled, no tracked file and no watched directory lies under it
C26_NothingBeneath ==
    (DispatchedRemoval /\ call.path \in call.preDirs) =>
        /\ \A q \in Tracked : ~LiesUnder(q, call.path)
        /\ \A d \in watchedDir : ~LiesUnder(d, call.path)

\* what holds of it: the directory and the tracked files under it are gone
OnlyFilesBeneath ==
    (DispatchedRemoval /\ call.path \in call.preDirs) =>
        /\ \A q \in Tracked : ~LiesUnder(q, call.path)
        /\ call.path \notin watchedDir
        /\ watchedDir = call.preDirs \ {call.path}

\* the places of the watcher.Add calls of the engine call just made that failed
FailedAdds == {i \in 1..Len(call.adds) : call.adds[i] \in call.failing}

\* C27: an engine call never calls watcher.Add on a directory that was in the
\* watch set, nor twice on one it subscribed; a directory whose watcher.Add
\* failed is not in the watch set and there is one error queued for each
\* failed call; a pass registers the files of a directory all the same, calls
\* watcher.Add on every directory it reaches that is not yet watched, and
\* leaves it watched unless the call failed
C27_Subscription ==
    "adds" \in DOMAIN call =>
        /\ \A i \in 1..Len(call.adds) :
              /\ call.adds[i] \notin call.preDirs
              /\ \A j \in 1..Len(call.adds) :
                    (i # j /\ call.adds[i] = call.adds[j]) => i \in FailedAdds
        /\ \A i \in FailedAdds : call.adds[i] \notin watchedDir
        /\ Len(call.errs) = Cardinality(FailedAdds)
        /\ \A k \in 1..Len(call.errs) : call.errs[k] = "ENOSPC"
        /\ QuietPass =>
              \A p \in Paths :
                  /\ (fs[p].kind = "file" /\ Reached(p) /\ shouldInclude(p)
                         /\ isTextFile(p).isText) => p \in Tracked
                  /\ (fs[p].kind = "dir" /\ Reached(p) /\ p \notin call.preDirs) =>
                        /\ \E i \in 1..Len(call.adds) : call.adds[i] = p
                        /\ p \in watchedDir <=> p \notin call.failing

\* C27's case: in a pass the subscription of the directory d failed; the file
\* in it was registered, the directory in it was subscribed, and the root,
\* watched before, was not subscribed again
C27_Witness ==
    /\ QuietPass /\ "adds" \in DOMAIN call
    /\ call.failing = {PathD} /\ call.adds = <<PathD, PathDE>>
    /\ call.errs = <<"ENOSPC">> /\ Root \in call.preDirs
    /\ PathD \notin watchedDir /\ PathDE \in watchedDir
    /\ PathDA \in Tracked /\ PathDA \notin DOMAIN call.pre

\* a later pass subscribed a directory whose file an earlier call had
\* registered without a subscription
C27_Retried ==
    /\ QuietPass /\ "adds" \in DOMAIN call
    /\ call.adds = <<PathD>> /\ PathD \in watchedDir
    /\ PathDA \in DOMAIN call.pre

-----------------------------------------------------------------------------
(* The stored offset against the size of the file, checked under Spec *)

\* the stored offset of p is beyond the end of the file
Beyond(p) == states[p].offset > Len(fs[p].data)

\* C29: a stored offset is never negative; when a handler has just read or
\* registered a file its offset is not beyond the size that handler saw; and a
\* stored offset gets beyond the end of the file only by a step that cuts the
\* file, and stays there only while the entry is not touched
C29_OffsetInvariant ==
    /\ [](\A p \in Tracked :
             /\ states[p].offset >= 0
             /\ (call.op = "handleWrite" /\ call.path = p) => ~Beyond(p))
    /\ [][\A p \in Tracked' :
             Beyond(p)' =>
                 \/ Len(fs'[p].data) < Len(fs[p].data)
                 \/ p \in Tracked /\ Beyond(p) /\ states'[p] = states[p]]_vars

\* C29's case: the file was cut below the stored offset and the next
\* notification read it again from the start
C29_Witness ==
    \E p \in Tracked :
        /\ SawTruncation(p) /\ Len(fs[p].data) > 0
        /\ states[p].offset = Len(fs[p].data)

-----------------------------------------------------------------------------
(* SpecLock: the store lock, between the engine and a FileCount query *)

\* the paths the engine registers and drops here
LockPaths == {PathA, PathDA, PathDSib}

\* the operations of the engine that touch the store: ensureFile, getState,
\* removePath of a file, removePath of the watched directory d, and the prune
\* of a pass
StoreOps == {"ensureFile", "getState", "removePath", "removeDir", "prune"}

\* a thread that is not in a store operation
Outside == [op |-> "none", pc |-> "idle", holds |-> FALSE]

\* a seeded fault: Lock does not wait
LockAbsent(other) == TRUE

\* sync.Mutex.Lock returns when the other thread does not hold the lock
Lock(other) == ~other.holds

\* the size of the store at this instant if the engine is between two store
\* operations' critical sections, as a set
QuietSize(store, engine) == IF engine.holds THEN {} ELSE {Cardinality(DOMAIN store)}

\* the query in progress notes the store sizes it could rightly return
Observed(store, engine) ==
    IF ret.pc \in {"lock", "locked", "unlock"}
    THEN [ret EXCEPT !.seen = @ \cup QuietSize(store, engine)]
    ELSE ret

InitLock ==
    /\ cfg \in WatchConfigs
    /\ fs = [p \in Paths |-> IF p = Root THEN Dir ELSE NoFile]
    /\ states = EmptyStore
    /\ watchedDir = {Root}
    /\ call = NoCall
    /\ reg = EmptyStore
    /\ args = Outside
    /\ ret = Outside
    /\ LoopNotStarted

\* the engine enters a store operation on p
EngineCall(op, p) ==
    /\ args.pc = "idle"
    /\ args' = [op |-> op, pc |-> "lock", holds |-> FALSE, path |-> p, todo |-> {}]
    /\ ret' = Observed(states, args')
    /\ UNCHANGED <<cfg, fs, states, watchedDir, call, reg, linesCh, errsCh, loop>>

\* t.mu.Lock() in the engine.  What the loop under the lock will delete is
\* fixed here: the entries under the directory for removePath, the entries
\* not seen whose stat fails, any of them, for the prune
EngineLock(victims) ==
    /\ args.pc = "lock" /\ Lock(ret)
    /\ victims \subseteq DOMAIN states
    /\ victims = IF args.op = "removeDir"
                 THEN {q \in DOMAIN states : HasPrefix(q, args.path \o <<Sep>>)}
                 ELSE IF args.op = "prune" THEN victims ELSE {}
    /\ args' = [args EXCEPT !.pc = "locked", !.holds = TRUE, !.todo = victims]
    /\ ret' = Observed(states, args')
    /\ UNCHANGED <<cfg, fs, states, watchedDir, call, reg, linesCh, errsCh, loop>>

\* one access of the map under the lock: the lookup and insertion of
\* ensureFile, the lookup of getState, the delete of removePath, one delete of
\* a loop over the map
EngineAccess(q) ==
    /\ args.pc = "locked"
    /\ CASE args.op = "ensureFile" ->
              /\ q = args.path
              /\ states' = IF q \in DOMAIN states THEN states
                           ELSE [x \in DOMAIN states \cup {q} |->
                                    IF x = q THEN NoState ELSE states[x]]
              /\ args' = [args EXCEPT !.pc = "unlock"]
         [] args.op = "getState" ->
              /\ q = args.path
              /\ states' = states
              /\ args' = [args EXCEPT !.pc = "unlock"]
         [] args.op = "removePath" ->
              /\ q = args.path
              /\ states' = [x \in DOMAIN states \ {q} |-> states[x]]
              /\ args' = [args EXCEPT !.pc = "unlock"]
         [] OTHER ->
              IF args.todo = {}
              THEN /\ q = args.path
                   /\ states' = states
                   /\ args' = [args EXCEPT !.pc = "unlock"]
              ELSE /\ q \in args.todo
                   /\ states' = [x \in DOMAIN states \ {q} |-> states[x]]
                   /\ args' = [args EXCEPT !.todo = @ \ {q}]
    /\ ret' = Observed(states', args')
    /\ UNCHANGED <<cfg, fs, watchedDir, call, reg, linesCh, errsCh, loop>>

\* t.mu.Unlock() in the engine
EngineUnlock ==
    /\ args.pc = "unlock"
    /\ args' = [args EXCEPT !.pc = "idle", !.holds = FALSE]
    /\ ret' = Observed(states, args')
    /\ UNCHANGED <<cfg, fs, states, watchedDir, call, reg, linesCh, errsCh, loop>>

\* FileCount is called from outside the loop
QueryCall ==
    /\ ret.pc \in {"idle", "returned"}
    /\ ret' = [op |-> "FileCount", pc |-> "lock", holds |-> FALSE, value |-> 0,
               seen |-> QuietSize(states, args)]
    /\ UNCHANGED <<cfg, fs, states, watchedDir, call, reg, args, linesCh, errsCh, loop>>

\* t.mu.Lock() in FileCount
QueryLock ==
    /\ ret.pc = "lock" /\ Lock(args)
    /\ ret' = [ret EXCEPT !.pc = "locked", !.holds = TRUE]
    /\ UNCHANGED <<cfg, fs, states, watchedDir, call, reg, args, linesCh, errsCh, loop>>

\* len(t.states)
QueryRead ==
    /\ ret.pc = "locked"
    /\ ret' = [ret EXCEPT !.pc = "unlock", !.value = FileCount]
    /\ UNCHANGED <<cfg, fs, states, watchedDir, call, reg, args, linesCh, errsCh, loop>>

\* the deferred t.mu.Unlock() and the return of FileCount
QueryUnlock ==
    /\ ret.pc = "unlock"
    /\ ret' = [ret EXCEPT !.pc = "returned", !.holds = FALSE]
    /\ UNCHANGED <<cfg, fs, states, watchedDir, call, reg, args, linesCh, errsCh, loop>>

NextLock ==
    \/ \E op \in StoreOps \ {"removeDir", "prune"}, p \in LockPaths : EngineCall(op, p)
    \/ EngineCall("removeDir", PathD)
    \/ EngineCall("prune", Root)
    \/ \E victims \in SUBSET LockPaths : EngineLock(victims)
    \/ \E q \in LockPaths \cup {PathD, Root} : EngineAccess(q)
    \/ EngineUnlock
    \/ QueryCall
    \/ QueryLock
    \/ QueryRead
    \/ QueryUnlock

SpecLock == InitLock /\ [][NextLock]_vars

\* C30: the engine and FileCount never hold the lock together; the map is
\* read and changed only by a thread that holds the lock, and changed only by
\* the engine; and the value FileCount returns is the size the store had at
\* an instant of the call at which the engine was not inside a critical
\* section
C30_StoreLock ==
    /\ [](~(args.holds /\ ret.holds))
    /\ [](args.pc \in {"locked", "unlock"} => args.holds)
    /\ [](ret.pc \in {"locked", "unlock"} => ret.holds)
    /\ [](ret.pc = "returned" => ret.value \in ret.seen)
    /\ [][states' # states => (args.holds /\ args.pc = "locked" /\ ~ret.holds)]_vars

\* C30's case: FileCount was called with three files tracked, a prune deleted
\* two of them one by one during the call, and FileCount returned 1
C30_Witness ==
    /\ ret.pc = "returned" /\ ret.value = 1 /\ ret.seen = {1, 3}
    /\ args.op = "prune" /\ args.pc = "idle"

-----------------------------------------------------------------------------
(* SpecFault: the reader on one file whose reads can fail part-way *)

\* the chunks file.Read returns before it fails
MaxOkChunks == 2
\* 0..MaxOkChunks chunks of ReadChunkSize bytes are read before the error
\* the failing reads stop once this many bytes of lines have been delivered
MaxDelivered == 7

InitFault ==
    /\ cfg \in {c \in Configs : c.N = 0}
    /\ fs = [p \in Paths |-> IF p = Root THEN Dir
                             ELSE IF p = PathA THEN RegularFile(<<>>) ELSE NoFile]
    /\ states = EmptyStore
    /\ watchedDir = {Root}
    /\ call = NoCall
    /\ reg = EmptyStore
    /\ args = NoArgs
    /\ ret = NoArgs
    /\ LoopNotStarted

\* the device under the tracked file p starts to fail: a read returns an error
\* after okChunks chunks
Fault(p, okChunks) ==
    /\ fs[p].kind = "file" /\ p \in Tracked
    /\ fs' = [fs EXCEPT ![p] = Faulty(fs[p].data, okChunks)]
    /\ call' = NoCall
    /\ UNCHANGED <<cfg, states, watchedDir, reg, args, ret, linesCh, errsCh, loop>>

\* the device recovers
Repair(p) ==
    /\ fs[p].kind = "faulty"
    /\ fs' = [fs EXCEPT ![p] = RegularFile(fs[p].data)]
    /\ call' = NoCall
    /\ UNCHANGED <<cfg, states, watchedDir, reg, args, ret, linesCh, errsCh, loop>>

\* a write notification for p is handled while its reads fail
FaultyWrite(p) ==
    /\ fs[p].kind = "faulty"
    /\ p \in DOMAIN reg => Len(reg[p].delivered) < MaxDelivered
    /\ \E o \in {handleWrite(Outcome(states, watchedDir, <<>>, <<>>), p,
                              fs[p].data, Len(fs[p].data))} :
           /\ states' = o.states
           /\ watchedDir' = o.watchedDir
           /\ call' = [op |-> "handleWrite", path |-> p, pre |-> states,
                       events |-> o.events, errs |-> o.errs]
           /\ reg' = RegAfter(states, o, fs[p].data, FALSE)
    /\ UNCHANGED <<cfg, fs, args, ret, linesCh, errsCh, loop>>

NextFault ==
    \/ \E b \in Byte : WriterAppend(PathA, b)
    \/ HandleWrite(PathA, <<>>)
    \/ \E k \in 0..MaxOkChunks : Fault(PathA, k)
    \/ Repair(PathA)
    \/ FaultyWrite(PathA)

SpecFault == InitFault /\ [][NextFault]_vars

\* the handler just run called readNew on the tracked file p and the read
\* failed part-way
FailedRead(p) ==
    /\ call.op = "handleWrite" /\ call.path = p /\ p \in DOMAIN call.pre
    /\ call.errs = <<"EIO">>

\* C31: when an incremental read has failed part-way the entry is as it was
\* and the call has sent no line
C31_FailedReadSilent ==
    \A p \in Tracked :
        FailedRead(p) => (states[p] = call.pre[p] /\ call.events = <<>>)

\* what holds of it: the entry is as it was and the error is queued
FailedReadKeepsState ==
    \A p \in DOMAIN call.pre :
        FailedRead(p) => (p \in Tracked /\ states[p] = call.pre[p])

\* what follows for the lines: a line sent by a failed read is sent again by
\* the read after the repair
LineSentTwice ==
    \E p \in Tracked :
        /\ call.op = "handleWrite" /\ call.path = p /\ call.errs = <<>>
        /\ Len(reg[p].delivered) > Len(fs[p].data)

-----------------------------------------------------------------------------
(* SpecSplit: one file that only grows, read at arbitrary moments *)

InitSplit ==
    /\ cfg \in {c \in Configs : c.N = 0}
    /\ fs = [p \in Paths |-> IF p = Root THEN Dir
                             ELSE IF p = PathA THEN RegularFile(<<>>) ELSE NoFile]
    /\ states = EmptyStore
    /\ watchedDir = {Root}
    /\ call = NoCall
    /\ reg = EmptyStore
    /\ args = NoArgs
    /\ ret = NoArgs
    /\ LoopNotStarted

NextSplit ==
    \/ \E b \in Byte : WriterAppend(PathA, b)
    \/ HandleWrite(PathA, <<>>)

SpecSplit == InitSplit /\ [][NextSplit]_vars

\* the complete lines one read of the file from the place where the registration
\* started would emit
OneRead(p) ==
    Flatten(readFromOffset(p, fs[p].data, NoState, reg[p].start, TRUE).events)

\* the file has been read to its end
CaughtUpOn(p) ==
    /\ p \in Tracked /\ fs[p].kind = "file"
    /\ states[p].offset = Len(fs[p].data)

\* C32: the complete lines emitted by the successive reads of a growing file
\* are the complete lines one read of the same content emits
C32_ReadBoundaries ==
    \A p \in Tracked : CaughtUpOn(p) => reg[p].delivered = OneRead(p)

\* what holds: without a carriage return and with no line beyond the ceiling
\* the reads agree with one read
ShortLinesNoCR(data) ==
    /\ ~HasByte(data, CR)
    /\ \A i \in 1..Len(data) : \A j \in i..Len(data) :
           (j - i + 1 > MaxLineBytes) => HasByte(SubSeq(data, i, j), LF)

ReadBoundariesPlain ==
    \A p \in Tracked :
        (CaughtUpOn(p) /\ ShortLinesNoCR(fs[p].data)) => reg[p].delivered = OneRead(p)

\* and a carriage return alone is enough for the reads to differ
ReadBoundariesShort ==
    \A p \in Tracked :
        (CaughtUpOn(p) /\ Len(fs[p].data) <= MaxLineBytes) => reg[p].delivered = OneRead(p)

-----------------------------------------------------------------------------
(* SpecBoundary: a file registered with a tail of N lines while a writer appends *)

InitBoundary ==
    /\ cfg \in {c \in Configs : ~c.FromStart /\ c.N > 0}
    /\ fs = [p \in Paths |-> IF p = Root THEN Dir
                             ELSE IF p = PathA THEN RegularFile(<<>>) ELSE NoFile]
    /\ states = EmptyStore
    /\ watchedDir = {Root}
    /\ call = NoCall
    /\ reg = EmptyStore
    /\ args = NoArgs
    /\ ret = NoArgs
    /\ LoopNotStarted

\* the first notification for p registers it: tailLastLines reads the file, the
\* writer appends gap, os.Stat gives the size with gap in it.  The call records
\* the size the tail read saw.
RegisterTail(p, gap) ==
    /\ fs[p].kind = "file" /\ p \notin Tracked
    /\ Len(fs[p].data) + Len(gap) <= MaxFileLen
    /\ gap # <<>> => gap[1] \in WriteByte(Len(fs[p].data))
    /\ \E o \in {handleWrite(Outcome(states, watchedDir, <<>>, <<>>), p,
                              fs[p].data, Len(fs[p].data) + Len(gap))} :
           /\ states' = o.states
           /\ watchedDir' = o.watchedDir
           /\ call' = [op |-> "register", path |-> p, pre |-> states,
                       events |-> o.events, errs |-> o.errs,
                       seen |-> Len(fs[p].data)]
           /\ reg' = RegAfter(states, o, fs[p].data, gap # <<>>)
           /\ fs' = [fs EXCEPT ![p].data = @ \o gap]
    /\ UNCHANGED <<cfg, args, ret, linesCh, errsCh, loop>>

\* a later write notification for the tracked file
ReadTracked(p) ==
    /\ p \in Tracked
    /\ HandleWrite(p, <<>>)

NextBoundary ==
    \/ \E b \in Byte : WriterAppend(PathA, b)
    \/ \E gap \in Gaps : RegisterTail(PathA, gap)
    \/ ReadTracked(PathA)

SpecBoundary == InitBoundary /\ [][NextBoundary]_vars

\* C33: right after a registration with a tail the stored offset is the end of
\* what the tail read saw, so that the bytes appended since are still to be read
C33_RegistrationBoundary ==
    \A p \in Tracked :
        (call.op = "register" /\ call.path = p) => states[p].offset <= call.seen

\* what holds: the offset is the size at the stat, at or beyond what the tail
\* read saw
OffsetIsStatSize ==
    \A p \in Tracked :
        (call.op = "register" /\ call.path = p) =>
            /\ states[p].offset = Len(fs[p].data)
            /\ states[p].offset >= call.seen

\* and the bytes in between are not read later: the next read finds the size
\* equal to the offset and returns
GapNeverRead ==
    \A p \in Tracked :
        (call.op = "handleWrite" /\ call.path = p /\ p \in DOMAIN call.pre
         /\ call.pre[p].offset = Len(fs[p].data)) => call.events = <<>>

-----------------------------------------------------------------------------
(* C34: the size of the events and of the held partial, under Spec *)

\* the length of an event's text; the truncation marker is one token of it
TextLen(text) == Len(text)

\* the ceiling and the marker
MaxTextLen == MaxLineBytes + Len(<<TruncMark>>)

\* C34: every event of a handler has a text within the ceiling and the marker,
\* and the held partial of a tracked file is within the ceiling
C34_BoundedEvents ==
    /\ \A i \in 1..Len(call.events) : TextLen(call.events[i].text) <= MaxTextLen
    /\ \A p \in Tracked : Len(states[p].partial) <= MaxLineBytes

\* what holds: the events and the partial of a call that went through
\* readFromOffset are bounded
BoundedByReader ==
    \A p \in Tracked :
        (ReadCall(p) \/ (RegisterCall(p) /\ cfg.FromStart)) =>
            /\ \A i \in 1..Len(call.events) : TextLen(call.events[i].text) <= MaxTextLen
            /\ Len(states[p].partial) <= MaxLineBytes

\* and the tail of a registration is where a longer text comes from
LongTailEvent ==
    \E p \in Tracked :
        /\ RegisterCall(p) /\ ~cfg.FromStart /\ cfg.N > 0
        /\ \E i \in 1..Len(call.events) : TextLen(call.events[i].text) > MaxTextLen
        /\ Len(states[p].partial) > MaxLineBytes

-----------------------------------------------------------------------------
(* SpecRender: the renderer applying the line events of the reader *)

\* the buffer sizes (-buffer) of the renderer: 0 keeps every line
BufferSizes == {0, 2}
\* the lines the display holds before the reader is run again without a clear
MaxShown == 2
\* the longest content of the file in SpecRender
MaxRenderLen == 3

displayLine(line) == [path |-> line.path, text |-> line.text, partial |-> line.partial]

\* delete(m.partialIndex, path)
deleteIndex(index, path) == [q \in DOMAIN index \ {path} |-> index[q]]

\* m.partialIndex[path] = idx
setIndex(index, path, idx) ==
    [q \in DOMAIN index \cup {path} |-> IF q = path THEN idx ELSE index[q]]

\* trimLines: the oldest lines beyond maxLines go, the indexes move with the
\* buffer and the index of a line that went is deleted
trimLines(m) ==
    IF m.maxLines <= 0 THEN m
    ELSE IF Len(m.lines) <= m.maxLines THEN m
    ELSE LET removeCount == Len(m.lines) - m.maxLines
         IN  [m EXCEPT !.lines = Tail2(m.lines, removeCount),
                       !.partialIndex =
                           [q \in {r \in DOMAIN m.partialIndex :
                                       m.partialIndex[r] - removeCount >= 0} |->
                               m.partialIndex[q] - removeCount]]

\* appendLine: the line goes to the end; a partial one is indexed, a complete
\* one clears the index of its path
appendLine(m, line) ==
    LET lines == Append(m.lines, displayLine(line))
    IN  trimLines([m EXCEPT !.lines = lines,
                            !.partialIndex =
                                IF line.partial
                                THEN setIndex(m.partialIndex, line.path, Len(lines) - 1)
                                ELSE deleteIndex(m.partialIndex, line.path)])

\* applyLine: an update replaces the indexed line of its path (indexes count
\* from 0 as in the source); anything else is appended
applyLine(m, line) ==
    IF /\ line.update
       /\ line.path \in DOMAIN m.partialIndex
       /\ m.partialIndex[line.path] >= 0
       /\ m.partialIndex[line.path] < Len(m.lines)
    THEN trimLines([m EXCEPT !.lines[m.partialIndex[line.path] + 1] = displayLine(line),
                             !.partialIndex =
                                 IF ~line.partial THEN deleteIndex(@, line.path) ELSE @])
    ELSE appendLine(m, line)

\* Update on a linesMsg: the lines are applied in order
RECURSIVE applyLines(_, _)
applyLines(m, lines) ==
    IF Len(lines) = 0 THEN m
    ELSE applyLines(applyLine(m, Head(lines)), Tail(lines))

\* the renderer's New: no line, no index
NewModel(maxLines) ==
    [lines |-> <<>>, partialIndex |-> [q \in {} |-> 0], maxLines |-> maxLines]

InitRender ==
    /\ cfg \in Configs
    /\ fs = [p \in Paths |-> IF p = Root THEN Dir
                             ELSE IF p = PathA THEN RegularFile(<<>>) ELSE NoFile]
    /\ states = EmptyStore
    /\ watchedDir = {Root}
    /\ call = NoCall
    /\ reg = EmptyStore
    /\ args = NoArgs
    /\ ret \in {NewModel(n) : n \in BufferSizes}
    /\ LoopNotStarted

\* a write notification for p is handled and the renderer applies the lines
\* the handler sent
WriteShown(p) ==
    /\ fs[p].kind = "file"
    /\ Len(ret.lines) < MaxShown
    /\ \E o \in {handleWrite(Outcome(states, watchedDir, <<>>, <<>>), p,
                              fs[p].data, Len(fs[p].data))} :
           /\ states' = o.states
           /\ watchedDir' = o.watchedDir
           /\ call' = [op |-> "handleWrite", path |-> p, pre |-> states,
                       events |-> o.events, errs |-> o.errs]
           /\ reg' = RegAfter(states, o, fs[p].data, FALSE)
           /\ ret' = applyLines(ret, o.events)
    /\ UNCHANGED <<cfg, fs, args, linesCh, errsCh, loop>>

\* handleKey on "c": the display is cleared
ClearKey ==
    /\ Len(ret.lines) > 0
    /\ ret' = [ret EXCEPT !.lines = <<>>, !.partialIndex = [q \in {} |-> 0]]
    /\ call' = NoCall
    /\ UNCHANGED <<cfg, fs, states, watchedDir, reg, args, linesCh, errsCh, loop>>

\* the writer appends a byte
RenderAppend(p, b) ==
    /\ Len(fs[p].data) < MaxRenderLen
    /\ WriterAppend(p, b)

NextRender ==
    \/ \E b \in Byte : RenderAppend(PathA, b)
    \/ \E k \in 0..MaxRenderLen : WriterTruncate(PathA, k)
    \/ WriteShown(PathA)
    \/ ClearKey

SpecRender == InitRender /\ [][NextRender]_vars

\* the places of the buffer (from 0) that show a partial line of p
ShownPartial(p) ==
    {i \in 0..(Len(ret.lines) - 1) :
         ret.lines[i + 1].path = p /\ ret.lines[i + 1].partial}

\* the places that show a complete line of p
ShownComplete(p) ==
    {i \in 0..(Len(ret.lines) - 1) :
         ret.lines[i + 1].path = p /\ ~ret.lines[i + 1].partial}

\* C35: the display shows at most one partial line of a path, the one indexed
\* for it, and no partial line of a path older than a complete line of it
C35_OnePartial ==
    \A p \in Paths :
        /\ Cardinality(ShownPartial(p)) <= 1
        /\ \A i \in ShownPartial(p) :
               p \in DOMAIN ret.partialIndex /\ ret.partialIndex[p] = i
        /\ \A i \in ShownPartial(p) : \A j \in ShownComplete(p) : j < i

\* what holds: the same while the file has not been cut and holds no carriage
\* return
OnePartialUncut ==
    (\A p \in Paths : fs[p].kind = "file" =>
         /\ ~HasByte(fs[p].data, CR)
         /\ p \in Tracked => ~reg[p].cut)
    => C35_OnePartial

\* a lone carriage return is shown as an empty partial line that no later line
\* replaces
StalePartialUncut ==
    \E p \in Tracked :
        /\ ~reg[p].cut
        /\ ShownPartial(p) # {} /\ p \notin DOMAIN ret.partialIndex

\* and the index never points at a line of another kind
IndexIsPartial ==
    \A p \in DOMAIN ret.partialIndex : ret.partialIndex[p] \in ShownPartial(p)

\* after a truncation reset the old partial line stays beside the new one
TwoPartialsAfterCut ==
    \E p \in Tracked :
        /\ reg[p].cut /\ ~HasByte(fs[p].data, CR)
        /\ Cardinality(ShownPartial(p)) = 2

=============================================================================
